---- MODULE Spec2Model ----
(***************************************************************************)
(* Model of CalendarEventViewModel (src/unnamed/part_000): the draft of a  *)
(* calendar event, its three recipient rosters, the attendee status        *)
(* ledger, and the saveAndSend orchestrator with its notify-and-save and   *)
(* respond-to-organizer protocols.                                         *)
(*                                                                         *)
(* Conventions.  A mail address is a string; display names are dropped     *)
(* (the code never compares them).  An instant is minutes since day 0 in   *)
(* one fixed zone.  A time of day is minutes since midnight, NoTime when   *)
(* the user input was invalid.  Every saveAndSend invocation is a caller   *)
(* p with its own continuation position pc[p] and locals.                  *)
(***************************************************************************)
EXTENDS Integers, Sequences, FiniteSets, TLC

\* ---------------------------------------------------------------- bounds
NumCallers == 2
MaxEdits == 2
MaxExistingAttendees == 2
MaxDay == 1
MaxOccurrences == 3
MaxExclusions == 2
MaxInterval == 2
MaxEndValue == 2

\* ------------------------------------------------------------- constants
Null == "null"
NoStatus == "none"
NoTime == 0 - 1
MinutesPerDay == 1440
MaxHour == 23

Today == 1
DaysPerYear == 365
TIMESTAMP_ZERO_YEAR == 1970
DefaultSender == "me"
OwnMailAddresses == {"me", "alias"}
ForeignAddresses == {"a", "b", "c"}
ExternalAddresses == {"b"}
\* an own address in a spelling that is not the one of the address list
OwnSpellings == {"Me"}
Addr == OwnMailAddresses \cup ForeignAddresses \cup OwnSpellings

ADDED == "ADDED"
NEEDS_ACTION == "NEEDS_ACTION"
ACCEPTED == "ACCEPTED"
DECLINED == "DECLINED"
TENTATIVE == "TENTATIVE"

DAILY == "DAILY"
WEEKLY == "WEEKLY"

EndNever == "Never"
EndCount == "Count"
EndUntilDate == "UntilDate"

Zone == "zone"

\* no repeat rule (the null of the source)
NoRule == [absent |-> TRUE]

\* the end value of a rule that has none
NoEndValue == 0 - 1

OWN == "own"
SHARED_RO == "shared_ro"
SHARED_RW == "shared_rw"
INVITE == "invite"

Callers == 1..NumCallers

VARIABLES
    originalEvent, existingEvent, eventType, organizer, possibleOrganizers,
    inviteModel, updateModel, cancelModel, guestStatuses, ownAttendee,
    summary, location, note, repeat, startDate, endDate, startTime, endTime, allDay,
    isForceUpdates, hasBusinessFeature, processing,
    accountType, unresolved,
    pc, newEvent, updateResponse, result, calls, overlap, before,
    edits

\* the text fields and the recurrence of the draft
detailVars == <<summary, location, note, repeat>>

draftVars == <<eventType, organizer, possibleOrganizers, inviteModel, updateModel,
               cancelModel, guestStatuses, ownAttendee, summary, location, note, repeat,
               startDate, endDate, startTime, endTime, allDay, isForceUpdates>>
envVars == <<hasBusinessFeature, accountType, unresolved>>
callVars == <<pc, newEvent, updateResponse, result, calls, overlap, before>>
vars == <<originalEvent, existingEvent, draftVars, envVars, callVars, processing, edits>>

\* --------------------------------------------------------------- helpers
SeqToSet(s) == {s[i] : i \in 1..Len(s)}

Min(x, y) == IF x < y THEN x ELSE y

Abs(x) == IF x < 0 THEN 0 - x ELSE x

\* cleanMailAddress: trims and lower-cases; every address of the model is
\* a fixed point except the spelling variant "Me" of "me".
cleanMailAddress(address) == IF address = "Me" THEN "me" ELSE address

\* findAttendeeInAddresses: index of the first attendee whose cleaned
\* address is one of the cleaned addresses, 0 if there is none.
findAttendeeIndex(attendeeList, addresses) ==
    LET hits == {i \in 1..Len(attendeeList) :
                    cleanMailAddress(attendeeList[i].address)
                        \in {cleanMailAddress(x) : x \in addresses}}
    IN IF hits = {} THEN 0 ELSE CHOOSE i \in hits : \A j \in hits : i <= j

\* findRecipientWithAddress over a list of addresses: index or 0.
findRecipientIndex(recipients, address) ==
    LET hits == {i \in 1..Len(recipients) :
                    cleanMailAddress(recipients[i]) = cleanMailAddress(address)}
    IN IF hits = {} THEN 0 ELSE CHOOSE i \in hits : \A j \in hits : i <= j

RemoveAt(s, i) == [j \in 1..(Len(s) - 1) |-> IF j < i THEN s[j] ELSE s[j + 1]]

\* ------------------------------------------------ recipient roster (SendMailModel)
NewSendMailModel == [bcc |-> <<>>, confidential |-> FALSE,
                     passwords |-> [x \in Addr |-> ""]]

\* SendMailModel.addRecipient: appends unless the address is already there.
addRecipient(model, address) ==
    IF findRecipientIndex(model.bcc, address) # 0 THEN model
    ELSE [model EXCEPT !.bcc = Append(@, address)]

\* SendMailModel.removeRecipient
removeRecipient(model, address) ==
    LET i == findRecipientIndex(model.bcc, address)
    IN IF i = 0 THEN model ELSE [model EXCEPT !.bcc = RemoveAt(@, i)]

RecipientType(address) ==
    IF address \in ExternalAddresses THEN "EXTERNAL" ELSE "INTERNAL"

\* SendMailModel.containsExternalRecipients
modelContainsExternalRecipients(model) ==
    \E i \in 1..Len(model.bcc) : RecipientType(model.bcc[i]) = "EXTERNAL"

\* SendMailModel.hasInsecurePasswords: confidential and some external
\* recipient whose password is not strong.
modelHasInsecurePasswords(model) ==
    /\ model.confidential
    /\ \E i \in 1..Len(model.bcc) :
          /\ RecipientType(model.bcc[i]) = "EXTERNAL"
          /\ model.passwords[model.bcc[i]] # "strong"

\* ------------------------------------------------------ attendee composition
makeGuestList(model, statuses) ==
    [i \in 1..Len(model.bcc) |->
        [address |-> model.bcc[i],
         status |-> IF statuses[model.bcc[i]] # NoStatus
                    THEN statuses[model.bcc[i]] ELSE NEEDS_ACTION]]

\* _initAttendees: own attendee first, then invite roster, then update roster.
attendeesOf(inv, upd, statuses, own) ==
    (IF own # Null
     THEN <<[address |-> own,
             status |-> IF statuses[own] # NoStatus THEN statuses[own] ELSE ACCEPTED]>>
     ELSE <<>>)
    \o makeGuestList(inv, statuses) \o makeGuestList(upd, statuses)

attendees == attendeesOf(inviteModel, updateModel, guestStatuses, ownAttendee)

\* findOwnAttendee: address of the first attendee that is one of our own, or Null.
findOwnAttendeeIn(attendeeList) ==
    LET i == findAttendeeIndex(attendeeList, OwnMailAddresses)
    IN IF i = 0 THEN Null ELSE attendeeList[i].address

\* ------------------------------------------------------------ existing events
NoEvent == [exists |-> FALSE]

ExistingAddresses == <<"me", "a", "b">>

RECURSIVE AddressListsOfLen(_)
AddressListsOfLen(n) ==
    IF n = 0 THEN {<<>>}
    ELSE {Append(l, x) : l \in AddressListsOfLen(n - 1), x \in SeqToSet(ExistingAddresses)}

PositionOf(x) == CHOOSE i \in 1..Len(ExistingAddresses) : ExistingAddresses[i] = x

\* The address lists of persisted events: no address twice, the guests in
\* one fixed order, the own attendee at any place among them.
ExistingAddressLists ==
    {l \in UNION {AddressListsOfLen(n) : n \in 0..MaxExistingAttendees} :
        \A i, j \in 1..Len(l) :
            /\ l[i] = l[j] => i = j
            /\ (i < j /\ l[i] \in ForeignAddresses /\ l[j] \in ForeignAddresses)
                  => PositionOf(l[i]) < PositionOf(l[j])}

\* The statuses of a persisted event: the organizer has accepted, an own
\* attendee who is a guest has not answered yet, the guests were invited.
ExistingAttendees(l, org) ==
    [i \in 1..Len(l) |->
        [address |-> l[i],
         status |-> IF l[i] \in OwnMailAddresses /\ org = l[i] THEN ACCEPTED ELSE NEEDS_ACTION]]

\* ownerGroup: "own" = a calendar of the editor, "rw"/"ro" = a calendar
\* shared with the editor with/without write capability, "none" = not in
\* the editor's calendar map (event from a file).
ExistingEvents ==
    {[exists |-> TRUE, hasId |-> og # "none", ownerGroup |-> og, organizer |-> org,
      attendees |-> ExistingAttendees(l, org), sequence |-> 0, uid |-> "uid",
      invitedConfidentially |-> FALSE, summary |-> 0, description |-> 0, location |-> 0,
      repeatRule |-> NoRule,
      startTime |-> MinutesPerDay + 480, endTime |-> MinutesPerDay + 540,
      allDay |-> FALSE] :
        og \in {"own", "rw", "ro", "none"}, org \in {Null, "me", "a"},
        l \in ExistingAddressLists}

\* an event with attendees has an organizer, and an organizer who is not
\* the editor is one of the attendees
ValidExistingEvent(e) ==
    Len(e.attendees) > 0 =>
        /\ e.organizer # Null
        /\ e.organizer \in ForeignAddresses
              => \E i \in 1..Len(e.attendees) : e.attendees[i].address = e.organizer

\* ----------------------------------------------------- role classification
\* hasGuests: the original event has attendees other than only ourselves.
hasGuestsOf(event) ==
    /\ event.exists
    /\ Len(event.attendees) > 0
    /\ ~(Len(event.attendees) = 1
         /\ findAttendeeIndex(<<event.attendees[1]>>, OwnMailAddresses) # 0)

hasGuests == hasGuestsOf(existingEvent)

ownPossibleOrganizers == <<"me", "alias">>

\* Fault: the event counts as the editor's own when it has no guests.
isOwnWithoutGuests(event) ==
    \/ event.organizer = Null
    \/ event.organizer \in OwnMailAddresses
    \/ ~hasGuestsOf(event)

\* initEventTypeAndOrganizers, event in a personal calendar: the editor is
\* or becomes the organizer
isOwnInPersonalCalendar(event) ==
    \/ event.organizer = Null
    \/ event.organizer \in OwnMailAddresses
    \/ Len(event.attendees) = 0

\* Fault: the existing organizer is kept whoever it is.
existingOrganizerOf(event) ==
    IF event.organizer # Null THEN event.organizer ELSE DefaultSender

\* initEventTypeAndOrganizers: the existing organizer is kept if it is one
\* of the editor's addresses, the default sender is used in all other cases
actualOrganizerOf(event) ==
    IF event.organizer # Null /\ event.organizer \in OwnMailAddresses
    THEN event.organizer ELSE DefaultSender

initEventTypeAndOrganizers(event) ==
    IF ~event.exists
    THEN [eventType |-> OWN, organizer |-> DefaultSender,
          possibleOrganizers |-> ownPossibleOrganizers]
    ELSE IF event.ownerGroup # "none"
    THEN IF event.ownerGroup \in {"rw", "ro"}
         THEN [eventType |-> IF event.ownerGroup = "rw" THEN SHARED_RW ELSE SHARED_RO,
               organizer |-> event.organizer,
               possibleOrganizers |-> IF event.organizer # Null
                                      THEN <<event.organizer>> ELSE <<>>]
         ELSE IF isOwnInPersonalCalendar(event)
              THEN [eventType |-> OWN, organizer |-> actualOrganizerOf(event),
                    possibleOrganizers |-> IF hasGuestsOf(event)
                                           THEN <<actualOrganizerOf(event)>>
                                           ELSE ownPossibleOrganizers]
              ELSE [eventType |-> INVITE, organizer |-> event.organizer,
                    possibleOrganizers |-> <<event.organizer>>]
    ELSE [eventType |-> INVITE, organizer |-> event.organizer,
          possibleOrganizers |-> IF event.organizer # Null
                                 THEN <<event.organizer>> ELSE <<>>]

\* ------------------------------------------------------------- recurrence
\* The start instants of the occurrences of a series, one a day.
OccurrenceStarts == {(d * MinutesPerDay) + 480 : d \in 1..MaxOccurrences}

\* the instants an until-date of a rule can be
UntilInstants == {d * MinutesPerDay : d \in 1..MaxEndValue}

IsSorted(dates) == \A i \in 1..(Len(dates) - 1) : dates[i] <= dates[i + 1]

RECURSIVE DateListsOfLen(_)
DateListsOfLen(n) ==
    IF n = 0 THEN {<<>>}
    ELSE {Append(l, d) : l \in DateListsOfLen(n - 1), d \in OccurrenceStarts}

\* The exclusion lists of persisted rules are sorted from earliest to latest.
ExcludedDateLists ==
    {l \in UNION {DateListsOfLen(n) : n \in 0..MaxExclusions} : IsSorted(l)}

\* the repeat rules of persisted events
RepeatRules ==
    {[frequency |-> f, interval |-> i, endType |-> t, endValue |-> v, timeZone |-> Zone,
      excludedDates |-> x] :
        f \in {DAILY, WEEKLY}, i \in 1..MaxInterval, t \in {EndNever, EndCount, EndUntilDate},
        v \in (1..MaxEndValue) \cup UntilInstants \cup {NoEndValue},
        x \in ExcludedDateLists}

\* the end value a persisted rule of its end type holds: a count, or the
\* instant of the until-date
ValidRepeatRule(r) ==
    /\ r.endType = EndUntilDate => r.endValue \in UntilInstants
    /\ r.endType = EndCount => r.endValue \in 1..MaxEndValue
    /\ r.endType = EndNever => r.endValue = NoEndValue

\* _applyValuesFromExistingEvent: the RepeatData of an existing rule;
\* repeatEndTime is what getRepeatEndTime gives for an until-date.
RepeatDataOf(existingRule, repeatEndTime) ==
    IF existingRule = NoRule THEN NoRule
    ELSE [frequency |-> existingRule.frequency,
          interval |-> existingRule.interval,
          endType |-> existingRule.endType,
          endValue |-> IF existingRule.endType = EndUntilDate THEN repeatEndTime
                       ELSE IF existingRule.endType = EndCount THEN existingRule.endValue
                       ELSE 1,
          excludedDates |-> existingRule.excludedDates]

\* the RepeatData a draft can hold after it was opened on the event
RepeatDatasOf(event) ==
    IF ~event.exists \/ event.repeatRule = NoRule THEN {NoRule}
    ELSE IF event.repeatRule.endType = EndUntilDate
    THEN {RepeatDataOf(event.repeatRule, t) : t \in UntilInstants}
    ELSE {RepeatDataOf(event.repeatRule, 1)}

\* Fault: the exclusions survive.
keepExcludedDates(r) == r

\* deleteExcludedDates
deleteExcludedDates(r) == IF r = NoRule THEN r ELSE [r EXCEPT !.excludedDates = <<>>]

\* _initGuestStatus: the own attendee slot, the update roster and the ledger
\* built from the attendees of the original event.
RECURSIVE initGuestStatusFrom(_, _)
initGuestStatusFrom(attendeeList, acc) ==
    IF attendeeList = <<>> THEN acc
    ELSE LET at == Head(attendeeList)
             isOwn == findAttendeeIndex(<<at>>, OwnMailAddresses) # 0
         IN initGuestStatusFrom(Tail(attendeeList),
                [own |-> IF isOwn THEN at.address ELSE acc.own,
                 update |-> IF isOwn THEN acc.update ELSE addRecipient(acc.update, at.address),
                 statuses |-> [acc.statuses EXCEPT ![at.address] = at.status]])

initGuestStatus(event) ==
    initGuestStatusFrom(IF event.exists THEN event.attendees ELSE <<>>,
                        [own |-> Null, update |-> NewSendMailModel,
                         statuses |-> [x \in Addr |-> NoStatus]])

\* setConfidential applies to one roster.
withConfidential(model, c) == [model EXCEPT !.confidential = c]

ConstructedFrom(event) ==
    LET g == initGuestStatus(event)
        t == initEventTypeAndOrganizers(event)
        c == IF event.exists THEN event.invitedConfidentially ELSE FALSE
    IN /\ existingEvent = event
       /\ originalEvent = event
       /\ eventType = t.eventType
       /\ organizer = t.organizer
       /\ possibleOrganizers = t.possibleOrganizers
       /\ inviteModel = withConfidential(NewSendMailModel, c)
       /\ updateModel = withConfidential(g.update, c)
       /\ cancelModel = withConfidential(NewSendMailModel, c)
       /\ guestStatuses = g.statuses
       /\ ownAttendee = g.own
       /\ summary = IF event.exists THEN event.summary ELSE 0
       /\ location = IF event.exists THEN event.location ELSE 0
       /\ note = IF event.exists THEN event.description ELSE 0
       /\ repeat \in RepeatDatasOf(event)
       /\ allDay = IF event.exists THEN event.allDay ELSE FALSE
       /\ startDate = IF event.exists THEN event.startTime \div MinutesPerDay ELSE Today
       /\ endDate = IF event.exists THEN event.endTime \div MinutesPerDay ELSE Today
       /\ startTime = IF event.exists THEN event.startTime % MinutesPerDay ELSE 480
       /\ endTime = IF event.exists THEN event.endTime % MinutesPerDay ELSE 510
       /\ unresolved = SeqToSet(g.update.bcc)

\* what a caller has seen of the draft: nothing, while it has no call open
NoView == [taken |-> FALSE]

Init ==
    /\ \E event \in {NoEvent} \cup {e \in ExistingEvents : ValidExistingEvent(e)} :
          ConstructedFrom(event)
    /\ accountType \in {"FREE", "PREMIUM", "EXTERNAL"}
    /\ accountType = "EXTERNAL" => existingEvent.exists /\ existingEvent.ownerGroup = "none"
    /\ hasBusinessFeature = FALSE
    /\ isForceUpdates = FALSE
    /\ processing = FALSE
    /\ pc = [p \in Callers |-> "idle"]
    /\ newEvent = [p \in Callers |-> NoEvent]
    /\ updateResponse = [p \in Callers |-> "none"]
    /\ result = [p \in Callers |-> "none"]
    /\ calls = [p \in Callers |-> <<>>]
    /\ overlap = [p \in Callers |-> FALSE]
    /\ before = [p \in Callers |-> NoView]
    /\ edits = 0

\* --------------------------------------------------------- draft operations
\* The part of the view model the guest operations read and write.
View == [inv |-> inviteModel, upd |-> updateModel, can |-> cancelModel,
         gs |-> guestStatuses, own |-> ownAttendee, org |-> organizer]

Apply(s) ==
    /\ inviteModel' = s.inv
    /\ updateModel' = s.upd
    /\ cancelModel' = s.can
    /\ guestStatuses' = s.gs
    /\ ownAttendee' = s.own
    /\ organizer' = s.org

attendeesIn(s) == attendeesOf(s.inv, s.upd, s.gs, s.own)

\* No saveAndSend invocation is pending or waiting for its caller: the
\* draft is only edited from the single UI control flow between saves.
Quiescent == \A p \in Callers : pc[p] = "idle"

CanEdit == Quiescent /\ edits < MaxEdits

canModifyOwnAttendanceIn(s) ==
    \/ eventType = OWN
    \/ eventType = INVITE /\ findOwnAttendeeIn(attendeesIn(s)) # Null

\* Fault: the guests of the draft decide.
canModifyOrganizerOfDraft ==
    eventType = OWN /\ Len(inviteModel.bcc) + Len(updateModel.bcc) = 0

\* canModifyOrganizer: own event, and no guests on the original event
canModifyOrganizer == eventType = OWN /\ ~hasGuests

selectGoingIn(s, going) ==
    IF ~canModifyOwnAttendanceIn(s) THEN s
    ELSE IF s.own # Null THEN [s EXCEPT !.gs[s.own] = going]
    ELSE IF eventType = OWN
    THEN [s EXCEPT !.own = DefaultSender, !.gs[DefaultSender] = going]
    ELSE s

setOrganizerIn(s, newOrganizer) ==
    IF canModifyOrganizer THEN [s EXCEPT !.org = newOrganizer, !.own = newOrganizer]
    ELSE s

\* Fault: only the default sender is recognised as an own address.
isDefaultSender(mailAddress) == mailAddress = DefaultSender

\* addGuest: this._ownMailAddresses.includes(mailAddress)
isOwnAddress(mailAddress) == mailAddress \in OwnMailAddresses

\* Fault: the editor never joins by itself.
joinsNever(s) == FALSE

\* addGuest: the editor is added when the guest is the only attendee
joinsWithFirstGuest(s) ==
    Len(attendeesIn(s)) = 1 /\ findOwnAttendeeIn(attendeesIn(s)) = Null

addGuestIn(s, mailAddress) ==
    IF findAttendeeIndex(attendeesIn(s), {mailAddress}) # 0 THEN s
    ELSE
    LET isOwnAttendee == isOwnAddress(mailAddress)
        s1 == IF ~isOwnAttendee THEN [s EXCEPT !.inv = addRecipient(@, mailAddress)] ELSE s
        status == IF isOwnAttendee THEN ACCEPTED ELSE ADDED
        own1 == findOwnAttendeeIn(attendeesIn(s1))
        s2 == IF isOwnAttendee /\ own1 # Null THEN [s1 EXCEPT !.gs[own1] = NoStatus] ELSE s1
        s3 == IF s2.gs[mailAddress] = NoStatus THEN [s2 EXCEPT !.gs[mailAddress] = status] ELSE s2
        s4 == IF isOwnAttendee /\ findRecipientIndex(possibleOrganizers, mailAddress) # 0
              THEN setOrganizerIn(s3, possibleOrganizers[findRecipientIndex(possibleOrganizers, mailAddress)])
              ELSE s3
    IN IF joinsWithFirstGuest(s4)
       THEN selectGoingIn(s4, ACCEPTED)
       ELSE s4

\* one round of the loop of removeAttendee over a roster
removeFromModel(model, statuses, address) ==
    LET i == findRecipientIndex(model.bcc, address)
    IN IF i = 0 THEN [model |-> model, gs |-> statuses]
       ELSE [model |-> removeRecipient(model, model.bcc[i]),
             gs |-> [statuses EXCEPT ![model.bcc[i]] = NoStatus]]

removeAttendeeIn(s, address) ==
    LET existingIndex == IF existingEvent.exists
                         THEN findAttendeeIndex(existingEvent.attendees, {address}) ELSE 0
        r1 == removeFromModel(s.inv, s.gs, address)
        r2 == removeFromModel(s.upd, r1.gs, address)
        r3 == removeFromModel(s.can, r2.gs, address)
        can1 == IF existingIndex # 0
                THEN addRecipient(r3.model, existingEvent.attendees[existingIndex].address)
                ELSE r3.model
    IN [s EXCEPT !.inv = r1.model, !.upd = r2.model, !.can = can1, !.gs = r3.gs]

GuestInputs == Addr
GoingInputs == {ACCEPTED, DECLINED, NEEDS_ACTION}
TimeInputs == {NoTime, 480, 600}
PasswordInputs == {"", "strong"}

\* MaxEdits bounds the edits that change the draft
Edited == edits' = IF draftVars' # draftVars THEN edits + 1 ELSE edits

addGuest(mailAddress) ==
    /\ CanEdit
    /\ Apply(addGuestIn(View, mailAddress))
    /\ unresolved' = IF addGuestIn(View, mailAddress).inv # inviteModel
                     THEN unresolved \cup {mailAddress} ELSE unresolved
    /\ UNCHANGED <<originalEvent, existingEvent, eventType, possibleOrganizers, detailVars, startDate, endDate,
                   startTime, endTime, allDay, isForceUpdates, hasBusinessFeature,
                   accountType, callVars, processing>>
    /\ Edited

removeAttendee(address) ==
    /\ CanEdit
    /\ Apply(removeAttendeeIn(View, address))
    /\ unresolved' = IF removeAttendeeIn(View, address).can # cancelModel
                     THEN unresolved \cup SeqToSet(removeAttendeeIn(View, address).can.bcc)
                     ELSE unresolved
    /\ UNCHANGED <<originalEvent, existingEvent, eventType, possibleOrganizers, detailVars, startDate, endDate,
                   startTime, endTime, allDay, isForceUpdates, hasBusinessFeature,
                   accountType, callVars, processing>>
    /\ Edited

selectGoing(going) ==
    /\ CanEdit
    /\ Apply(selectGoingIn(View, going))
    /\ UNCHANGED <<originalEvent, existingEvent, eventType, possibleOrganizers, detailVars, startDate, endDate,
                   startTime, endTime, allDay, isForceUpdates, envVars, callVars, processing>>
    /\ Edited

setOrganizer(newOrganizer) ==
    /\ CanEdit
    /\ Apply(setOrganizerIn(View, newOrganizer))
    /\ UNCHANGED <<originalEvent, existingEvent, eventType, possibleOrganizers, detailVars, startDate, endDate,
                   startTime, endTime, allDay, isForceUpdates, envVars, callVars, processing>>
    /\ Edited

setConfidential(confidential) ==
    /\ CanEdit
    /\ inviteModel' = withConfidential(inviteModel, confidential)
    /\ updateModel' = withConfidential(updateModel, confidential)
    /\ cancelModel' = withConfidential(cancelModel, confidential)
    /\ UNCHANGED <<originalEvent, existingEvent, eventType, organizer, possibleOrganizers, guestStatuses,
                   ownAttendee, detailVars, startDate, endDate, startTime, endTime, allDay,
                   isForceUpdates, envVars, callVars, processing>>
    /\ Edited

setPassword(model, address, password) == [model EXCEPT !.passwords[address] = password]

updatePassword(guestAddress, password) ==
    LET inInvite == findRecipientIndex(inviteModel.bcc, guestAddress)
        inUpdate == findRecipientIndex(updateModel.bcc, guestAddress)
        inCancel == findRecipientIndex(cancelModel.bcc, guestAddress)
        upd1 == IF inUpdate # 0
                THEN setPassword(updateModel, updateModel.bcc[inUpdate], password)
                ELSE updateModel
    IN /\ CanEdit
       /\ inviteModel' = IF inInvite # 0
                         THEN setPassword(inviteModel, inviteModel.bcc[inInvite], password)
                         ELSE inviteModel
       /\ updateModel' = IF inCancel # 0
                         THEN setPassword(upd1, cancelModel.bcc[inCancel], password)
                         ELSE upd1
       /\ UNCHANGED <<originalEvent, existingEvent, eventType, organizer, possibleOrganizers, cancelModel,
                      guestStatuses, ownAttendee, detailVars, startDate, endDate, startTime,
                      endTime, allDay, isForceUpdates, envVars, callVars, processing>>
       /\ Edited

setSummary(value) ==
    /\ CanEdit
    /\ summary' = value
    /\ UNCHANGED <<originalEvent, existingEvent, eventType, organizer, possibleOrganizers, inviteModel,
                   updateModel, cancelModel, guestStatuses, ownAttendee, location, note,
                   repeat, startDate, endDate,
                   startTime, endTime, allDay, isForceUpdates, envVars, callVars, processing>>
    /\ Edited

\* Date.getFullYear of a date counted in days from 1 January of
\* TIMESTAMP_ZERO_YEAR, in years of DaysPerYear days
getFullYear(date) == TIMESTAMP_ZERO_YEAR + (date \div DaysPerYear)

\* Date.setFullYear: the same day of the given year
setFullYear(date, year) == ((year - TIMESTAMP_ZERO_YEAR) * DaysPerYear) + (date % DaysPerYear)

\* getDiffInDays
getDiffInDays(a, b) == b - a

setStartDate(date) ==
    /\ CanEdit
    /\ IF date = startDate
       THEN UNCHANGED <<startDate, endDate, repeat>>
       ELSE IF getFullYear(date) < TIMESTAMP_ZERO_YEAR
       THEN /\ startDate' = setFullYear(date, getFullYear(Today))
            /\ UNCHANGED <<endDate, repeat>>
       ELSE /\ endDate' = endDate + getDiffInDays(startDate, date)
            /\ startDate' = date
            /\ repeat' = deleteExcludedDates(repeat)
    /\ UNCHANGED <<originalEvent, existingEvent, eventType, organizer, possibleOrganizers, inviteModel,
                   updateModel, cancelModel, guestStatuses, ownAttendee, summary, location,
                   note, startTime, endTime, allDay, isForceUpdates, envVars, callVars, processing>>
    /\ Edited

setEndDate(date) ==
    /\ CanEdit
    /\ endDate' = date
    /\ UNCHANGED <<originalEvent, existingEvent, eventType, organizer, possibleOrganizers, inviteModel,
                   updateModel, cancelModel, guestStatuses, ownAttendee, detailVars, startDate,
                   startTime, endTime, allDay, isForceUpdates, envVars, callVars, processing>>
    /\ Edited

\* Fault: the hour of the new end time is not capped.
adjustEndTimeUncapped(newStart, oldStart, end) ==
    IF newStart = NoTime \/ end = NoTime \/ oldStart = NoTime THEN end
    ELSE newStart + Abs(end - oldStart)

\* _adjustEndTime: the end time that keeps the distance to the old start time.
adjustEndTime(newStart, oldStart, end) ==
    IF newStart = NoTime \/ end = NoTime \/ oldStart = NoTime THEN end
    ELSE LET newEndTotalMinutes == newStart + Abs(end - oldStart)
         IN (Min(newEndTotalMinutes \div 60, MaxHour) * 60) + (newEndTotalMinutes % 60)

setStartTime(value) ==
    /\ CanEdit
    /\ startTime' = value
    /\ endTime' = IF startDate = endDate THEN adjustEndTime(value, startTime, endTime)
                  ELSE endTime
    /\ repeat' = deleteExcludedDates(repeat)
    /\ UNCHANGED <<originalEvent, existingEvent, eventType, organizer, possibleOrganizers, inviteModel,
                   updateModel, cancelModel, guestStatuses, ownAttendee, summary, location,
                   note, startDate,
                   endDate, allDay, isForceUpdates, envVars, callVars, processing>>
    /\ Edited

setEndTime(value) ==
    /\ CanEdit
    /\ endTime' = value
    /\ UNCHANGED <<originalEvent, existingEvent, eventType, organizer, possibleOrganizers, inviteModel,
                   updateModel, cancelModel, guestStatuses, ownAttendee, detailVars, startDate,
                   endDate, startTime, allDay, isForceUpdates, envVars, callVars, processing>>
    /\ Edited

\* the user ticks or unticks "send updates" (the isForceUpdates stream)
setForceUpdates(value) ==
    /\ CanEdit
    /\ isForceUpdates' = value
    /\ UNCHANGED <<originalEvent, existingEvent, eventType, organizer, possibleOrganizers, inviteModel,
                   updateModel, cancelModel, guestStatuses, ownAttendee, detailVars, startDate,
                   endDate, startTime, endTime, allDay, envVars, callVars, processing>>
    /\ Edited

\* updateCustomerFeatures: reloads the customer; its business feature may
\* have been booked or cancelled in the meantime, also during a save.
updateCustomerFeatures(enabled) ==
    /\ hasBusinessFeature' = IF accountType # "EXTERNAL" THEN enabled ELSE FALSE
    /\ accountType = "FREE" => ~enabled
    /\ hasBusinessFeature' # hasBusinessFeature
    /\ UNCHANGED <<originalEvent, existingEvent, draftVars, accountType, unresolved,
                   callVars, processing, edits>>

\* ------------------------------------------------------------ materialization
\* incrementSequence: only the organizer (own event) increases the number.
incrementSequence(sequence, isOwnEvent) == IF isOwnEvent THEN sequence + 1 ELSE sequence

isConfidential ==
    inviteModel.confidential /\ updateModel.confidential /\ cancelModel.confidential

\* checkEventValidity, as far as the draft can violate it: the end has to
\* be after the start.
checkEventValidity(event) ==
    IF event.endTime <= event.startTime THEN "InvalidEndBeforeStart" ELSE "Valid"

\* getStartOfNextDayWithZone on instants counted in minutes
startOfNextDay(instant) == ((instant \div MinutesPerDay) + 1) * MinutesPerDay

\* createRepeatRule: [error |-> ...] is the UserError it throws. The end
\* value of a rule that never ends is the one createRepeatRuleWithValues
\* leaves, none.
createRepeatRule(eventStart, data) ==
    LET rule == [frequency |-> data.frequency,
                 interval |-> IF data.interval = 0 THEN 1 ELSE data.interval,
                 endType |-> data.endType, endValue |-> NoEndValue, timeZone |-> Zone,
                 excludedDates |-> data.excludedDates]
    IN IF data.endType = EndCount
       THEN [error |-> "none",
             rule |-> IF data.endValue < 1 THEN [rule EXCEPT !.endType = EndNever]
                      ELSE [rule EXCEPT !.endValue = data.endValue]]
       ELSE IF data.endType = EndUntilDate
       THEN IF startOfNextDay(data.endValue) < eventStart
            THEN [error |-> "UserError:startAfterEnd_label", rule |-> NoRule]
            ELSE [error |-> "none",
                  rule |-> [rule EXCEPT !.endValue = startOfNextDay(data.endValue)]]
       ELSE [error |-> "none", rule |-> rule]

\* Fault: every materialization generates a UID.
generateUid == "generated"

\* _initializeNewEvent: the UID of the existing event is kept, an event
\* without one gets a generated UID
uidOfNewEvent ==
    IF existingEvent.exists /\ existingEvent.uid # Null THEN existingEvent.uid ELSE generateUid

\* _initializeNewEvent: [error |-> ...] is the UserError it throws, "none"
\* when it returns the event.
initializeNewEvent ==
    LET base == IF existingEvent.exists THEN existingEvent
                ELSE [exists |-> TRUE, hasId |-> FALSE, ownerGroup |-> "none",
                      organizer |-> Null, attendees |-> <<>>, sequence |-> 0, uid |-> Null,
                      invitedConfidentially |-> FALSE, summary |-> 0, description |-> 0,
                      location |-> 0, repeatRule |-> NoRule, startTime |-> 0,
                      endTime |-> 0, allDay |-> FALSE]
        timesValid == allDay \/ (startTime # NoTime /\ endTime # NoTime)
        eventStart == IF allDay THEN startDate * MinutesPerDay
                      ELSE (startDate * MinutesPerDay) + startTime
        created == IF repeat = NoRule THEN [error |-> "none", rule |-> NoRule]
                   ELSE createRepeatRule(eventStart, repeat)
        event == [base EXCEPT
                    !.sequence = incrementSequence(base.sequence, eventType = OWN),
                    !.startTime = IF allDay THEN startDate * MinutesPerDay
                                  ELSE (startDate * MinutesPerDay) + startTime,
                    !.endTime = IF allDay THEN (endDate + 1) * MinutesPerDay
                                ELSE (endDate * MinutesPerDay) + endTime,
                    !.allDay = allDay,
                    !.description = note,
                    !.summary = summary,
                    !.location = location,
                    !.invitedConfidentially = isConfidential,
                    !.uid = uidOfNewEvent,
                    !.repeatRule = created.rule,
                    !.attendees = attendees,
                    !.organizer = organizer]
    IN IF ~timesValid THEN [error |-> "UserError:timeFormatInvalid_msg", event |-> NoEvent]
       ELSE IF created.error # "none" THEN [error |-> created.error, event |-> NoEvent]
       ELSE IF checkEventValidity(event) = "InvalidEndBeforeStart"
       THEN [error |-> "UserError:startAfterEnd_label", event |-> NoEvent]
       ELSE [error |-> "none", event |-> event]

\* ------------------------------------------------------------- diff detector
AttendeeKey(a) == <<a.status, cleanMailAddress(a.address)>>

\* arrayEqualsWithPredicate with the predicate of _hasChanges (same status,
\* same cleaned address): the two lists hold the same pairs equally often.
attendeesEqual(l1, l2) ==
    /\ Len(l1) = Len(l2)
    /\ \A k \in {AttendeeKey(l1[i]) : i \in 1..Len(l1)} \cup {AttendeeKey(l2[i]) : i \in 1..Len(l2)} :
          Cardinality({i \in 1..Len(l1) : AttendeeKey(l1[i]) = k})
            = Cardinality({i \in 1..Len(l2) : AttendeeKey(l2[i]) = k})

\* areExcludedDatesEqual: the same instants at the same places
areExcludedDatesEqual(e1, e2) ==
    /\ Len(e1) = Len(e2)
    /\ \A i \in 1..Len(e1) : e2[i] = e1[i]

\* a field of a rule that may be missing (the r?.field of the source)
FieldOf(r, field) == IF r = NoRule THEN Null ELSE r[field]

areRepeatRulesEqual(r1, r2) ==
    \/ r1 = NoRule /\ r2 = NoRule
    \/ /\ FieldOf(r1, "endType") = FieldOf(r2, "endType")
       /\ FieldOf(r1, "endValue") = FieldOf(r2, "endValue")
       /\ FieldOf(r1, "frequency") = FieldOf(r2, "frequency")
       /\ FieldOf(r1, "interval") = FieldOf(r2, "interval")
       /\ FieldOf(r1, "timeZone") = FieldOf(r2, "timeZone")
       /\ areExcludedDatesEqual(IF r1 = NoRule THEN <<>> ELSE r1.excludedDates,
                                IF r2 = NoRule THEN <<>> ELSE r2.excludedDates)

\* Fault: the summary is not compared.
differsExceptSummary(event, original) ==
    \/ event.startTime # original.startTime
    \/ event.description # original.description
    \/ event.location # original.location
    \/ event.endTime # original.endTime
    \/ event.invitedConfidentially # original.invitedConfidentially
    \/ event.uid # original.uid
    \/ ~areRepeatRulesEqual(event.repeatRule, original.repeatRule)
    \/ ~attendeesEqual(event.attendees, original.attendees)
    \/ event.organizer # original.organizer

\* Fault: the attendees are compared place by place.
differsInOrder(event, original) ==
    \/ event.startTime # original.startTime
    \/ event.description # original.description
    \/ event.summary # original.summary
    \/ event.location # original.location
    \/ event.endTime # original.endTime
    \/ event.invitedConfidentially # original.invitedConfidentially
    \/ event.uid # original.uid
    \/ ~areRepeatRulesEqual(event.repeatRule, original.repeatRule)
    \/ Len(event.attendees) # Len(original.attendees)
    \/ \E i \in 1..Len(event.attendees) :
          AttendeeKey(event.attendees[i]) # AttendeeKey(original.attendees[i])
    \/ event.organizer # original.organizer

\* _hasChanges, the comparison with an original event
differs(event, original) ==
    \/ event.startTime # original.startTime
    \/ event.description # original.description
    \/ event.summary # original.summary
    \/ event.location # original.location
    \/ event.endTime # original.endTime
    \/ event.invitedConfidentially # original.invitedConfidentially
    \/ event.uid # original.uid
    \/ ~areRepeatRulesEqual(event.repeatRule, original.repeatRule)
    \/ ~attendeesEqual(event.attendees, original.attendees)
    \/ event.organizer # original.organizer

hasChanges(event) ==
    \/ ~existingEvent.exists
    \/ existingEvent.exists /\ differs(event, existingEvent)


\* ------------------------------------------------------------ the orchestrator
Outcomes == {"ok", "TooManyRequestsError", "PayloadTooLargeError"}

InProgress(p) == pc[p] \notin {"idle", "done"}

Call(op, outcome, event, to) == [op |-> op, outcome |-> outcome, event |-> event, to |-> to]

\* Fault: a failure is swallowed and reported as the result false.
ErrorAsFalse(e) == "false"

\* the catch of saveAndSend: a PayloadTooLargeError becomes a UserError
ErrorResult(e) == IF e = "PayloadTooLargeError" THEN "UserError:requestTooLarge_msg" ELSE e

\* Fault: saveAndSend settles without its finally clause.
FinishWithoutFinally(p, res) ==
    /\ pc' = [pc EXCEPT ![p] = "done"]
    /\ result' = [result EXCEPT ![p] = res]
    /\ UNCHANGED processing

\* the promise of saveAndSend settles with res; the finally clears the guard
Finish(p, res) ==
    /\ pc' = [pc EXCEPT ![p] = "done"]
    /\ result' = [result EXCEPT ![p] = res]
    /\ processing' = FALSE

Goto(p, label) ==
    /\ pc' = [pc EXCEPT ![p] = label]
    /\ UNCHANGED <<result, processing>>

\* Fault: saveAndSend does not look at the guard.
rejectsNever == FALSE

\* the guard of saveAndSend: a call is rejected while another one is processed
rejectsCall == processing

\* saveAndSend up to its first suspension: the single-flight guard
enterSaveAndSend(p) ==
    /\ pc[p] = "idle"
    /\ IF rejectsCall
       THEN /\ pc' = [pc EXCEPT ![p] = "done"]
            /\ result' = [result EXCEPT ![p] = "false"]
            /\ UNCHANGED processing
       ELSE /\ pc' = [pc EXCEPT ![p] = "waitForResolvedRecipients"]
            /\ processing' = TRUE
            /\ UNCHANGED result
    /\ overlap' = [overlap EXCEPT ![p] = \E q \in Callers \ {p} : InProgress(q)]
    /\ before' = [before EXCEPT ![p] = View]
    /\ UNCHANGED <<originalEvent, existingEvent, draftVars, envVars, newEvent, updateResponse, calls, edits>>

\* a call of saveAndSend; the callers are taken in their order, a later one
\* calls while an earlier one is in progress
saveAndSend(p) ==
    /\ \A q \in Callers : q < p => InProgress(q) \/ (pc[q] = "done" /\ overlap[q])
    /\ enterSaveAndSend(p)

\* the caller has taken the result of its invocation
return(p) ==
    /\ pc[p] = "done"
    /\ pc' = [pc EXCEPT ![p] = "idle"]
    /\ result' = [result EXCEPT ![p] = "none"]
    /\ newEvent' = [newEvent EXCEPT ![p] = NoEvent]
    /\ updateResponse' = [updateResponse EXCEPT ![p] = "none"]
    /\ calls' = [calls EXCEPT ![p] = <<>>]
    /\ overlap' = [overlap EXCEPT ![p] = FALSE]
    /\ before' = [before EXCEPT ![p] = NoView]
    /\ UNCHANGED <<originalEvent, existingEvent, draftVars, envVars, processing, edits>>

\* Fault: every save of an own event notifies.
needsNotificationAlways(event) == eventType = OWN

\* the first branch of saveAndSend: the notify-and-save protocol is needed
needsNotification(event) == eventType = OWN /\ (isForceUpdates \/ hasChanges(event))

\* Fault: saveAndSend goes on without the rosters.
withoutResolvedRecipients(pending) == pending

\* waitForResolvedRecipients: the recipients of the invite, update and
\* cancel roster that are still pending when the three promises have
\* settled
waitForResolvedRecipients(pending) == {}

\* saveAndSend after waitForResolvedRecipients: materialize and pick the path
materialize(p) ==
    /\ pc[p] = "waitForResolvedRecipients"
    /\ unresolved' = waitForResolvedRecipients(unresolved)
    /\ LET m == initializeNewEvent
       IN IF m.error # "none"
          THEN /\ Finish(p, ErrorResult(m.error))
               /\ UNCHANGED newEvent
          ELSE /\ newEvent' = [newEvent EXCEPT ![p] = m.event]
               /\ IF needsNotification(m.event)
                  THEN Goto(p, "askForUpdates")
                  ELSE IF eventType = INVITE
                  THEN Goto(p, "respondToOrganizer")
                  ELSE Goto(p, "saveEvent")
    /\ UNCHANGED <<originalEvent, existingEvent, draftVars, hasBusinessFeature, accountType,
                   updateResponse, calls, overlap, before, edits>>

hasUpdatableAttendees == Len(updateModel.bcc) > 0

\* Fault: the update question is asked although updates are forced.
asksForUpdatesDespiteForce == hasUpdatableAttendees

\* _sendNotificationAndSave: the caller is asked whether to send updates
asksForUpdates == hasUpdatableAttendees /\ ~isForceUpdates

\* _sendNotificationAndSave, askForUpdatesAwait: what the question resolves to
askForUpdatesAwait(answer) ==
    IF hasUpdatableAttendees
    THEN IF isForceUpdates THEN "yes" ELSE answer
    ELSE "no"

\* Fault: the answer cancel is not looked at.
cancelsNever(response) == FALSE

\* _sendNotificationAndSave: the answer cancel ends the save
cancels(response) == response = "cancel"

\* _sendNotificationAndSave, the update question
askForUpdates(p) ==
    /\ pc[p] = "askForUpdates"
    /\ \E answer \in {"yes", "no", "cancel"} :
          /\ ~asksForUpdates => answer = "yes"
          /\ updateResponse' = [updateResponse EXCEPT ![p] = askForUpdatesAwait(answer)]
          /\ calls' = IF asksForUpdates
                      THEN [calls EXCEPT ![p] = Append(@, Call("askForUpdates", answer, NoEvent, <<>>))]
                      ELSE calls
          /\ IF cancels(askForUpdatesAwait(answer))
             THEN Finish(p, "false")
             ELSE Goto(p, "checkBusinessFeature")
    /\ UNCHANGED <<originalEvent, existingEvent, draftVars, envVars, newEvent, overlap, before, edits>>

\* shouldShowSendInviteNotAvailable; isNewPaidPlan is the answer of the
\* user controller, which is only asked when the rest does not decide.
asksNewPaidPlan == accountType = "PREMIUM" /\ ~hasBusinessFeature

shouldShowSendInviteNotAvailable(isNewPaidPlan) ==
    IF accountType = "FREE" THEN TRUE
    ELSE IF accountType = "EXTERNAL" THEN FALSE
    ELSE ~hasBusinessFeature /\ ~isNewPaidPlan

\* Fault: the cancellations are forgotten in the business feature check.
sendsMailWithoutCancellations(response) ==
    response = "yes" \/ Len(inviteModel.bcc) > 0

\* _sendNotificationAndSave: the save is going to send mail
sendsMail(response) ==
    response = "yes" \/ Len(inviteModel.bcc) > 0 \/ Len(cancelModel.bcc) > 0

\* _sendNotificationAndSave, the late business feature check
checkBusinessFeature(p) ==
    /\ pc[p] = "checkBusinessFeature"
    /\ \E isNewPaidPlan \in BOOLEAN :
          /\ ~asksNewPaidPlan => ~isNewPaidPlan
          /\ calls' = IF asksNewPaidPlan
                      THEN [calls EXCEPT ![p] = Append(@, Call("isNewPaidPlan",
                                IF isNewPaidPlan THEN "true" ELSE "false", NoEvent, <<>>))]
                      ELSE calls
          /\ IF shouldShowSendInviteNotAvailable(isNewPaidPlan) /\ sendsMail(updateResponse[p])
             THEN Finish(p, ErrorResult("BusinessFeatureRequiredError"))
             ELSE Goto(p, "passwordCheck")
    /\ UNCHANGED <<originalEvent, existingEvent, draftVars, envVars, newEvent, updateResponse,
                   overlap, before, edits>>

hasInsecurePasswords ==
    IF ~isConfidential THEN FALSE
    ELSE IF eventType = INVITE THEN FALSE
    ELSE \/ modelHasInsecurePasswords(inviteModel)
         \/ modelHasInsecurePasswords(updateModel)
         \/ modelHasInsecurePasswords(cancelModel)

containsExternalRecipients ==
    \/ modelContainsExternalRecipients(inviteModel)
    \/ modelContainsExternalRecipients(updateModel)
    \/ modelContainsExternalRecipients(cancelModel)

\* Fault: the promise chain persists the event first.
chainPersistFirst == <<"saveEvent", "sendInvite", "sendCancellation", "sendUpdate">>

\* _sendNotificationAndSave: the promise chain behind the questions
chain == <<"sendInvite", "sendCancellation", "saveEvent", "sendUpdate">>

stepAfter(label) ==
    LET i == CHOOSE j \in 1..Len(chain) : chain[j] = label
    IN IF i = Len(chain) THEN "end" ELSE chain[i + 1]

\* the step of the chain has resolved: the next one starts, and the chain
\* resolves to true after the last one
Proceed(p, label) ==
    IF stepAfter(label) = "end" THEN Finish(p, "true") ELSE Goto(p, stepAfter(label))

\* Fault: a declined confirmation does not stop the save.
stopsNever(passwordCheckPassed) == FALSE

\* _sendNotificationAndSave: the caller declined to send with insecure passwords
stops(passwordCheckPassed) == ~passwordCheckPassed

\* _sendNotificationAndSave, the insecure password question
passwordCheck(p) ==
    /\ pc[p] = "passwordCheck"
    /\ \E answer \in BOOLEAN :
          LET asked == Len(inviteModel.bcc) > 0 /\ hasInsecurePasswords
                       /\ containsExternalRecipients
          IN /\ ~asked => answer
             /\ calls' = IF asked
                         THEN [calls EXCEPT ![p] = Append(@, Call("askInsecurePassword",
                                   IF answer THEN "true" ELSE "false", NoEvent, <<>>))]
                         ELSE calls
             /\ IF stops(answer) THEN Finish(p, "false") ELSE Goto(p, chain[1])
    /\ UNCHANGED <<originalEvent, existingEvent, draftVars, envVars, newEvent, updateResponse, overlap,
                   before, edits>>

\* Fault: every attendee is taken for a new one.
allAttendeesOf(event) == 1..Len(event.attendees)

\* the attendees of an event that _sendInvite treats as new
newAttendeesOf(event) == {i \in 1..Len(event.attendees) : event.attendees[i].status = ADDED}

\* _sendInvite
sendInvite(p) ==
    /\ pc[p] = "sendInvite"
    /\ LET event == newEvent[p]
           new == newAttendeesOf(event)
       IN IF new = {}
          THEN /\ Proceed(p, "sendInvite")
               /\ UNCHANGED <<calls, newEvent, guestStatuses>>
          ELSE \E outcome \in Outcomes :
                 /\ calls' = [calls EXCEPT ![p] = Append(@,
                                 Call("sendInvite", outcome, event, inviteModel.bcc))]
                 /\ IF outcome = "ok"
                    THEN /\ newEvent' = [newEvent EXCEPT ![p].attendees =
                                [i \in 1..Len(event.attendees) |->
                                    IF i \in new /\ event.attendees[i].status = ADDED
                                    THEN [event.attendees[i] EXCEPT !.status = NEEDS_ACTION]
                                    ELSE event.attendees[i]]]
                         /\ guestStatuses' =
                                [x \in Addr |->
                                    IF \E i \in new : event.attendees[i].address = x
                                    THEN NEEDS_ACTION ELSE guestStatuses[x]]
                         /\ Proceed(p, "sendInvite")
                    ELSE /\ Finish(p, ErrorResult(outcome))
                         /\ UNCHANGED <<newEvent, guestStatuses>>
    /\ UNCHANGED <<originalEvent, existingEvent, eventType, organizer, possibleOrganizers, inviteModel,
                   updateModel, cancelModel, ownAttendee, detailVars, startDate, endDate,
                   startTime, endTime, allDay, isForceUpdates, envVars, updateResponse,
                   overlap, before, edits>>

\* _sendNotificationAndSave, the cancellations to the removed guests
sendCancellation(p) ==
    /\ pc[p] = "sendCancellation"
    /\ IF Len(cancelModel.bcc) = 0
       THEN /\ Proceed(p, "sendCancellation")
            /\ UNCHANGED calls
       ELSE \E outcome \in Outcomes :
              /\ calls' = [calls EXCEPT ![p] = Append(@,
                              Call("sendCancellation", outcome, newEvent[p], cancelModel.bcc))]
              /\ IF outcome = "ok" THEN Proceed(p, "sendCancellation")
                 ELSE Finish(p, ErrorResult(outcome))
    /\ UNCHANGED <<originalEvent, existingEvent, draftVars, envVars, newEvent, updateResponse, overlap,
                   before, edits>>

\* _saveEvent, and what follows it on the path the invocation is on:
\* updateResponse is "none" off the notify-and-save path, where the save
\* is the last step.
saveEvent(p) ==
    /\ pc[p] = "saveEvent"
    /\ \E outcome \in Outcomes :
          LET stored == accountType # "EXTERNAL"
              op == IF ~existingEvent.exists \/ ~existingEvent.hasId
                    THEN "createEvent" ELSE "updateEvent"
          IN /\ ~stored => outcome = "ok"
             /\ calls' = IF stored
                         THEN [calls EXCEPT ![p] = Append(@, Call(op, outcome, newEvent[p], <<>>))]
                         ELSE calls
             /\ IF outcome # "ok" THEN Finish(p, ErrorResult(outcome))
                ELSE IF updateResponse[p] = "none" THEN Finish(p, "true")
                ELSE Proceed(p, "saveEvent")
    /\ UNCHANGED <<originalEvent, existingEvent, draftVars, envVars, newEvent, updateResponse, overlap,
                   before, edits>>

\* Fault: the updates are sent unless the save was cancelled.
sendsUpdateUnlessCancelled(response) == response # "cancel"

\* _sendNotificationAndSave: the updates are sent when the answer was yes
sendsUpdate(response) == response = "yes"

\* _sendNotificationAndSave, the updates to the guests that stay
sendUpdate(p) ==
    /\ pc[p] = "sendUpdate"
    /\ IF ~sendsUpdate(updateResponse[p])
       THEN /\ Proceed(p, "sendUpdate")
            /\ UNCHANGED calls
       ELSE \E outcome \in Outcomes :
              /\ calls' = [calls EXCEPT ![p] = Append(@,
                              Call("sendUpdate", outcome, newEvent[p], updateModel.bcc))]
              /\ IF outcome = "ok" THEN Proceed(p, "sendUpdate")
                 ELSE Finish(p, ErrorResult(outcome))
    /\ UNCHANGED <<originalEvent, existingEvent, draftVars, envVars, newEvent, updateResponse, overlap,
                   before, edits>>

\* Fault: every status that differs from the original one is sent.
respondsToAnyChange(ownStatus, selected) == ownStatus # selected

\* _respondToOrganizerAndSave: the selected status is an answer, and one
\* the original event does not hold yet
responds(ownStatus, selected) == selected # NEEDS_ACTION /\ ownStatus # selected

\* the sendResponse call: the mail goes to `to` and carries `status`
ResponseCall(outcome, event, to, status) ==
    [op |-> "sendResponse", outcome |-> outcome, event |-> event, to |-> to,
     status |-> status]

\* _respondToOrganizerAndSave up to the save
respondToOrganizer(p) ==
    /\ pc[p] = "respondToOrganizer"
    /\ LET i == findAttendeeIndex(existingEvent.attendees, OwnMailAddresses)
           selectedOwnAttendeeStatus ==
               IF i = 0 THEN NoStatus ELSE guestStatuses[existingEvent.attendees[i].address]
       IN IF i # 0 /\ responds(existingEvent.attendees[i].status, selectedOwnAttendeeStatus)
          THEN IF selectedOwnAttendeeStatus = NoStatus
               THEN /\ Finish(p, ErrorResult("Error"))
                    /\ UNCHANGED <<existingEvent, calls>>
               ELSE /\ existingEvent' = [existingEvent EXCEPT
                                            !.attendees[i].status = selectedOwnAttendeeStatus]
                    /\ IF existingEvent.organizer = Null
                       THEN /\ Finish(p, ErrorResult("Error"))
                            /\ UNCHANGED calls
                       ELSE \E outcome \in Outcomes :
                              /\ calls' = [calls EXCEPT ![p] = Append(@,
                                              ResponseCall(outcome, newEvent[p],
                                                           <<existingEvent.organizer>>,
                                                           selectedOwnAttendeeStatus))]
                              /\ IF outcome = "ok" THEN Goto(p, "saveEvent")
                                 ELSE Finish(p, ErrorResult(outcome))
          ELSE /\ Goto(p, "saveEvent")
               /\ UNCHANGED <<existingEvent, calls>>
    /\ UNCHANGED <<originalEvent, draftVars, envVars, newEvent, updateResponse, overlap,
                   before, edits>>

\* one step of an open saveAndSend invocation
Step(p) ==
    \/ materialize(p)
    \/ askForUpdates(p)
    \/ checkBusinessFeature(p)
    \/ passwordCheck(p)
    \/ sendInvite(p)
    \/ sendCancellation(p)
    \/ saveEvent(p)
    \/ sendUpdate(p)
    \/ respondToOrganizer(p)

Next ==
    \/ \E x \in GuestInputs : addGuest(x)
    \/ \E x \in GuestInputs : removeAttendee(x)
    \/ \E g \in GoingInputs : selectGoing(g)
    \/ \E x \in OwnMailAddresses : setOrganizer(x)
    \/ \E c \in BOOLEAN : setConfidential(c)
    \/ \E x \in ForeignAddresses, w \in PasswordInputs : updatePassword(x, w)
    \/ \E v \in 0..1 : setSummary(v)
    \/ \E d \in 0..MaxDay : setEndDate(d)
    \/ \E b \in BOOLEAN : setForceUpdates(b)
    \/ \E b \in BOOLEAN : updateCustomerFeatures(b)
    \/ \E p \in Callers : saveAndSend(p)
    \/ \E p \in Callers : return(p)
    \/ \E p \in Callers : materialize(p)
    \/ \E p \in Callers : askForUpdates(p)
    \/ \E p \in Callers : checkBusinessFeature(p)
    \/ \E p \in Callers : passwordCheck(p)
    \/ \E p \in Callers : sendInvite(p)
    \/ \E p \in Callers : sendCancellation(p)
    \/ \E p \in Callers : saveEvent(p)
    \/ \E p \in Callers : sendUpdate(p)
    \/ \E p \in Callers : respondToOrganizer(p)

Spec == Init /\ [][Next]_vars

\* The promises an open invocation waits for settle: the recipients resolve,
\* the caller answers the questions, the distributor and the calendar model
\* resolve or reject.
\* The settling is followed on the drafts a paying account opens for an
\* event with one attendee.
OneAttendeeInit ==
    /\ Init
    /\ accountType = "PREMIUM"
    /\ existingEvent.exists
    /\ Len(existingEvent.attendees) = 1

FairSpec == OneAttendeeInit /\ [][Next]_vars /\ \A p \in Callers : WF_vars(Step(p))

\* ------------------------------------------------------------------ hydration
\* The constructor as a step of its own: before it the view model has no
\* role, and the original event it is handed is any persisted event, also
\* one whose organizer is not among its attendees, or none.
NotConstructed == eventType = Null

HydrationInputs == {NoEvent} \cup ExistingEvents

constructor ==
    /\ NotConstructed
    /\ LET g == initGuestStatus(existingEvent)
           t == initEventTypeAndOrganizers(existingEvent)
           c == IF existingEvent.exists THEN existingEvent.invitedConfidentially ELSE FALSE
       IN /\ eventType' = t.eventType
          /\ organizer' = t.organizer
          /\ possibleOrganizers' = t.possibleOrganizers
          /\ inviteModel' = withConfidential(NewSendMailModel, c)
          /\ updateModel' = withConfidential(g.update, c)
          /\ cancelModel' = withConfidential(NewSendMailModel, c)
          /\ guestStatuses' = g.statuses
          /\ ownAttendee' = g.own
          /\ unresolved' = SeqToSet(g.update.bcc)
    /\ UNCHANGED <<originalEvent, existingEvent, detailVars, startDate, endDate, startTime, endTime, allDay,
                   isForceUpdates, hasBusinessFeature, accountType, callVars, processing,
                   edits>>

HydrationInit ==
    /\ existingEvent \in HydrationInputs
    /\ originalEvent = existingEvent
    /\ eventType = Null
    /\ organizer = Null
    /\ possibleOrganizers = <<>>
    /\ inviteModel = NewSendMailModel
    /\ updateModel = NewSendMailModel
    /\ cancelModel = NewSendMailModel
    /\ guestStatuses = [x \in Addr |-> NoStatus]
    /\ ownAttendee = Null
    /\ summary = IF existingEvent.exists THEN existingEvent.summary ELSE 0
    /\ location = IF existingEvent.exists THEN existingEvent.location ELSE 0
    /\ note = IF existingEvent.exists THEN existingEvent.description ELSE 0
    /\ repeat \in RepeatDatasOf(existingEvent)
    /\ allDay = IF existingEvent.exists THEN existingEvent.allDay ELSE FALSE
    /\ startDate = IF existingEvent.exists THEN existingEvent.startTime \div MinutesPerDay ELSE Today
    /\ endDate = IF existingEvent.exists THEN existingEvent.endTime \div MinutesPerDay ELSE Today
    /\ startTime = IF existingEvent.exists THEN existingEvent.startTime % MinutesPerDay ELSE 480
    /\ endTime = IF existingEvent.exists THEN existingEvent.endTime % MinutesPerDay ELSE 510
    /\ unresolved = {}
    /\ accountType = "PREMIUM"
    /\ hasBusinessFeature = FALSE
    /\ isForceUpdates = FALSE
    /\ processing = FALSE
    /\ pc = [p \in Callers |-> "idle"]
    /\ newEvent = [p \in Callers |-> NoEvent]
    /\ updateResponse = [p \in Callers |-> "none"]
    /\ result = [p \in Callers |-> "none"]
    /\ calls = [p \in Callers |-> <<>>]
    /\ overlap = [p \in Callers |-> FALSE]
    /\ before = [p \in Callers |-> NoView]
    /\ edits = 0

HydrationNext == constructor

HydrationSpec == HydrationInit /\ [][HydrationNext]_vars

\* ------------------------------------------------------- recurring events
\* The draft of an occurrence of a series in the editor's own calendar; the
\* setters of the repeat rule and the exclusion of the occurrence.
\* An occurrence is a copy of the first one with its own start; the
\* first occurrence is what the entity client holds.
SeriesOccurrences ==
    {[exists |-> TRUE, hasId |-> TRUE, ownerGroup |-> "own", organizer |-> "me",
      attendees |-> <<>>, sequence |-> 0, uid |-> "uid", invitedConfidentially |-> FALSE,
      summary |-> 0, description |-> 0, location |-> 0, repeatRule |-> r,
      startTime |-> t, endTime |-> t + 60, allDay |-> FALSE] :
        r \in {x \in RepeatRules : ValidRepeatRule(x)}, t \in OccurrenceStarts}

FirstOccurrence(event) ==
    [event EXCEPT !.startTime = MinutesPerDay + 480, !.endTime = MinutesPerDay + 540]

RepeatInit ==
    /\ \E event \in SeriesOccurrences :
          LET g == initGuestStatus(event)
              t == initEventTypeAndOrganizers(event)
          IN /\ existingEvent = event
             /\ originalEvent = FirstOccurrence(event)
             /\ eventType = t.eventType
             /\ organizer = t.organizer
             /\ possibleOrganizers = t.possibleOrganizers
             /\ inviteModel = NewSendMailModel
             /\ updateModel = g.update
             /\ cancelModel = NewSendMailModel
             /\ guestStatuses = g.statuses
             /\ ownAttendee = g.own
             /\ summary = event.summary
             /\ location = event.location
             /\ note = event.description
             /\ repeat \in RepeatDatasOf(event)
             /\ allDay = event.allDay
             /\ startDate = event.startTime \div MinutesPerDay
             /\ endDate = event.endTime \div MinutesPerDay
             /\ startTime = event.startTime % MinutesPerDay
             /\ endTime = event.endTime % MinutesPerDay
             /\ unresolved = {}
    /\ accountType = "PREMIUM"
    /\ hasBusinessFeature = FALSE
    /\ isForceUpdates = FALSE
    /\ processing = FALSE
    /\ pc = [p \in Callers |-> "idle"]
    /\ newEvent = [p \in Callers |-> NoEvent]
    /\ updateResponse = [p \in Callers |-> "none"]
    /\ result = [p \in Callers |-> "none"]
    /\ calls = [p \in Callers |-> <<>>]
    /\ overlap = [p \in Callers |-> FALSE]
    /\ before = [p \in Callers |-> NoView]
    /\ edits = 0

\* what the setters of the repeat rule leave alone
RepeatFrame ==
    UNCHANGED <<originalEvent, existingEvent, eventType, organizer, possibleOrganizers,
                inviteModel, updateModel, cancelModel, guestStatuses, ownAttendee, summary,
                location, note, startDate, endDate, startTime, endTime, allDay,
                isForceUpdates, envVars, callVars, processing, edits>>

RepeatPeriodInputs == {Null, DAILY, WEEKLY}

onRepeatPeriodSelected(repeatPeriod) ==
    /\ Quiescent
    /\ repeat' = IF repeat # NoRule /\ repeat.frequency = repeatPeriod THEN repeat
                 ELSE IF repeatPeriod = Null THEN NoRule
                 ELSE IF repeat # NoRule
                 THEN deleteExcludedDates([repeat EXCEPT !.frequency = repeatPeriod])
                 ELSE [frequency |-> repeatPeriod, interval |-> 1, endType |-> EndNever,
                       endValue |-> 1, excludedDates |-> <<>>]
    /\ RepeatFrame

onEndOccurencesSelected(endValue) ==
    /\ Quiescent
    /\ repeat' = IF repeat # NoRule /\ repeat.endType = EndCount /\ repeat.endValue # endValue
                 THEN deleteExcludedDates([repeat EXCEPT !.endValue = endValue])
                 ELSE repeat
    /\ RepeatFrame

onRepeatEndDateSelected(date) ==
    /\ Quiescent
    /\ repeat' = IF repeat # NoRule /\ repeat.endType = EndUntilDate /\ repeat.endValue # date
                 THEN deleteExcludedDates([repeat EXCEPT !.endValue = date])
                 ELSE repeat
    /\ RepeatFrame

onRepeatIntervalChanged(interval) ==
    /\ Quiescent
    /\ repeat' = IF repeat # NoRule /\ repeat.interval # interval
                 THEN deleteExcludedDates([repeat EXCEPT !.interval = interval])
                 ELSE repeat
    /\ RepeatFrame

\* incrementByRepeatPeriod(new Date(), MONTHLY, 1): a month from today
UntilDefault == (Today + 30) * MinutesPerDay

onRepeatEndTypeChanged(endType) ==
    /\ Quiescent
    /\ repeat' = IF repeat # NoRule /\ repeat.endType # endType
                 THEN [deleteExcludedDates([repeat EXCEPT !.endType = endType]) EXCEPT
                          !.endValue = IF endType = EndUntilDate THEN UntilDefault ELSE 1]
                 ELSE repeat
    /\ RepeatFrame

\* Fault: the instant is always appended.
insertionIndexNone(excludedDates, timeToInsert) == 0

\* excludeThisOccurrence, findIndex: the place of the first exclusion that is
\* not before the instant, 0 (the -1 of the source) when there is none
insertionIndex(excludedDates, timeToInsert) ==
    IF \E i \in 1..Len(excludedDates) : excludedDates[i] >= timeToInsert
    THEN CHOOSE i \in 1..Len(excludedDates) :
            /\ excludedDates[i] >= timeToInsert
            /\ \A j \in 1..(i - 1) : excludedDates[j] < timeToInsert
    ELSE 0

\* excludeThisOccurrence, push and splice
insertExclusion(excludedDates, timeToInsert) ==
    LET i == insertionIndex(excludedDates, timeToInsert)
    IN IF i = 0 THEN Append(excludedDates, timeToInsert)
       ELSE SubSeq(excludedDates, 1, i - 1) \o <<timeToInsert>>
            \o SubSeq(excludedDates, i, Len(excludedDates))

\* excludeThisOccurrence: the first occurrence is loaded, the start of the
\* occurrence of the draft is put into its exclusions, and it is persisted;
\* the entity client holds the new version when that went well.
excludeThisOccurrence(p) ==
    /\ Quiescent
    /\ p = 1
    /\ existingEvent.exists
    /\ LET loaded == IF existingEvent.repeatRule # NoRule THEN originalEvent ELSE existingEvent
       IN IF ~loaded.exists \/ loaded.repeatRule = NoRule \/ existingEvent.ownerGroup = "none"
          THEN /\ pc' = [pc EXCEPT ![p] = "done"]
               /\ UNCHANGED <<originalEvent, calls>>
          ELSE /\ Len(loaded.repeatRule.excludedDates) <= MaxExclusions
               /\ \E outcome \in Outcomes :
                    LET event == [loaded EXCEPT !.repeatRule.excludedDates =
                                     insertExclusion(@, existingEvent.startTime)]
                    IN /\ calls' = [calls EXCEPT ![p] = Append(@,
                                       Call("updateEvent", outcome, event, <<>>))]
                       /\ originalEvent' = IF outcome = "ok" THEN event ELSE originalEvent
                       /\ pc' = [pc EXCEPT ![p] = "done"]
    /\ result' = [result EXCEPT ![p] = "none"]
    /\ UNCHANGED <<existingEvent, draftVars, envVars, newEvent, updateResponse, overlap,
                   before, processing, edits>>

RepeatNext ==
    \/ \E repeatPeriod \in RepeatPeriodInputs : onRepeatPeriodSelected(repeatPeriod)
    \/ \E endValue \in 1..MaxEndValue : onEndOccurencesSelected(endValue)
    \/ \E date \in UntilInstants : onRepeatEndDateSelected(date)
    \/ \E interval \in 1..MaxInterval : onRepeatIntervalChanged(interval)
    \/ \E endType \in {EndNever, EndCount, EndUntilDate} : onRepeatEndTypeChanged(endType)
    \/ \E p \in Callers : excludeThisOccurrence(p)
    \/ \E p \in Callers : return(p)

RepeatSpec == RepeatInit /\ [][RepeatNext]_vars

\* ------------------------------------------------------- the diff detector
\* _hasChanges on its own: the view model is opened on an original event,
\* or on none, and is then handed candidate events.
DiffRule ==
    [frequency |-> DAILY, interval |-> 1, endType |-> EndCount, endValue |-> 2,
     timeZone |-> Zone, excludedDates |-> <<MinutesPerDay + 480>>]

DiffOriginals ==
    {[exists |-> TRUE, hasId |-> TRUE, ownerGroup |-> "own", organizer |-> "me",
      attendees |-> <<[address |-> "me", status |-> ACCEPTED],
                      [address |-> "a", status |-> NEEDS_ACTION]>>,
      sequence |-> 0, uid |-> "uid", invitedConfidentially |-> FALSE, summary |-> 0,
      description |-> 0, location |-> 0, repeatRule |-> r,
      startTime |-> MinutesPerDay + 480, endTime |-> MinutesPerDay + 540,
      allDay |-> FALSE] : r \in {NoRule, DiffRule}}

\* attendee lists that are the one of the originals, or differ from it in
\* the order, a status, the spelling of an address, or the guests
CandidateAttendees ==
    {<<[address |-> "me", status |-> ACCEPTED], [address |-> "a", status |-> NEEDS_ACTION]>>,
     <<[address |-> "a", status |-> NEEDS_ACTION], [address |-> "me", status |-> ACCEPTED]>>,
     <<[address |-> "Me", status |-> ACCEPTED], [address |-> "a", status |-> NEEDS_ACTION]>>,
     <<[address |-> "me", status |-> ACCEPTED], [address |-> "a", status |-> ACCEPTED]>>,
     <<[address |-> "me", status |-> ACCEPTED], [address |-> "b", status |-> NEEDS_ACTION]>>,
     <<[address |-> "me", status |-> ACCEPTED]>>}

\* repeat rules that are the one of the originals, none, or differ from it
\* in one field
CandidateRules ==
    {NoRule, DiffRule,
     [DiffRule EXCEPT !.interval = 2],
     [DiffRule EXCEPT !.endType = EndNever],
     [DiffRule EXCEPT !.endValue = 1],
     [DiffRule EXCEPT !.excludedDates = <<>>],
     [DiffRule EXCEPT !.excludedDates = <<(2 * MinutesPerDay) + 480>>]}

CandidatesOf(original) ==
    LET base == IF original.exists THEN original
                ELSE CHOOSE e \in DiffOriginals : e.repeatRule = NoRule
    IN {[base EXCEPT !.startTime = @ + st, !.endTime = @ + et, !.description = d,
                     !.summary = sm, !.location = l, !.invitedConfidentially = c,
                     !.uid = u, !.organizer = o, !.repeatRule = r, !.attendees = at,
                     !.sequence = sq, !.hasId = id] :
          st \in {0, 0 - 60}, et \in {0, 60}, d \in 0..1, sm \in 0..1, l \in 0..1,
          c \in BOOLEAN, u \in {"uid", "generated"}, o \in {"me", "alias", Null},
          r \in CandidateRules, at \in CandidateAttendees, sq \in 0..1, id \in BOOLEAN}

DiffInit ==
    /\ \E event \in {NoEvent} \cup DiffOriginals : ConstructedFrom(event)
    /\ accountType = "PREMIUM"
    /\ hasBusinessFeature = FALSE
    /\ isForceUpdates = FALSE
    /\ processing = FALSE
    /\ pc = [p \in Callers |-> "idle"]
    /\ newEvent = [p \in Callers |-> NoEvent]
    /\ updateResponse = [p \in Callers |-> "none"]
    /\ result = [p \in Callers |-> "none"]
    /\ calls = [p \in Callers |-> <<>>]
    /\ overlap = [p \in Callers |-> FALSE]
    /\ before = [p \in Callers |-> NoView]
    /\ edits = 0

\* a call of _hasChanges with a candidate; the caller holds its answer
callHasChanges(p, candidate) ==
    /\ p = 1
    /\ Quiescent
    /\ pc' = [pc EXCEPT ![p] = "done"]
    /\ newEvent' = [newEvent EXCEPT ![p] = candidate]
    /\ result' = [result EXCEPT ![p] = IF hasChanges(candidate) THEN "true" ELSE "false"]
    /\ UNCHANGED <<originalEvent, existingEvent, draftVars, envVars, updateResponse, calls,
                   overlap, before, processing, edits>>

DiffNext ==
    \/ \E p \in Callers :
          /\ \A q \in Callers : pc[q] = "idle"
          /\ \E candidate \in CandidatesOf(existingEvent) : callHasChanges(p, candidate)
    \/ \E p \in Callers : return(p)

DiffSpec == DiffInit /\ [][DiffNext]_vars

\* ------------------------------------------------------------------- deletion
\* Fault: the guests of every event with more than one attendee get a
\* cancellation.
cancelsWithGuests(event) == Len(event.attendees) > 1

\* deleteEvent: the guests are told only by the organizer, the editor of an
\* own event, and only when there is an attendee besides the editor
cancelsOnDelete(event) == eventType = OWN /\ Len(event.attendees) > 1

\* sendCancellation(event): the addresses of the attendees that are not the
\* editor's, in the order of the event
cancelAddresses(event) ==
    SelectSeq([i \in 1..Len(event.attendees) |-> event.attendees[i].address],
              LAMBDA x : x \notin OwnMailAddresses)

\* sendCancellation(event): every address is put on the cancel roster; an
\* external recipient without a password is taken off a confidential one
RECURSIVE addCancelRecipients(_, _)
addCancelRecipients(model, addresses) ==
    IF Len(addresses) = 0 THEN model
    ELSE LET added == addRecipient(model, Head(addresses))
             kept == IF /\ added.confidential
                        /\ RecipientType(Head(addresses)) = "EXTERNAL"
                        /\ added.passwords[Head(addresses)] = ""
                     THEN removeRecipient(added, Head(addresses)) ELSE added
         IN addCancelRecipients(kept, Tail(addresses))

DeleteOutcomes == {"ok", "NotFoundError", "Error"}

\* deleteEvent, from the call to the settling of its promise: result "void"
\* is the promise resolved. A TooManyRequestsError of the distributor
\* becomes a UserError, a NotFoundError of the calendar model is swallowed,
\* every other error is thrown to the caller.
deleteEvent(p) ==
    /\ Quiescent
    /\ p = 1
    /\ pc' = [pc EXCEPT ![p] = "done"]
    /\ IF ~existingEvent.exists
       THEN /\ result' = [result EXCEPT ![p] = "void"]
            /\ UNCHANGED <<cancelModel, calls>>
       ELSE LET event == existingEvent
                cancel == IF cancelsOnDelete(event)
                          THEN addCancelRecipients(cancelModel, cancelAddresses(event))
                          ELSE cancelModel
                sent == cancelsOnDelete(event) /\ Len(cancel.bcc) > 0
                updatedEvent == [event EXCEPT !.sequence = incrementSequence(@, TRUE)]
            IN /\ cancelModel' = cancel
               /\ \E mailed \in Outcomes, deleted \in DeleteOutcomes :
                     LET mail == IF sent
                                 THEN <<Call("sendCancellation", mailed, updatedEvent, cancel.bcc)>>
                                 ELSE <<>>
                     IN /\ ~sent => mailed = "ok"
                        /\ mailed # "ok" => deleted = "ok"
                        /\ IF mailed # "ok"
                           THEN /\ calls' = [calls EXCEPT ![p] = @ \o mail]
                                /\ result' = [result EXCEPT ![p] =
                                       IF mailed = "TooManyRequestsError"
                                       THEN "UserError:mailAddressDelay_msg" ELSE mailed]
                           ELSE /\ calls' = [calls EXCEPT ![p] =
                                       @ \o mail \o <<Call("deleteEvent", deleted, event, <<>>)>>]
                                /\ result' = [result EXCEPT ![p] =
                                       IF deleted = "Error" THEN "Error" ELSE "void"]
    /\ UNCHANGED <<originalEvent, existingEvent, eventType, organizer, possibleOrganizers,
                   inviteModel, updateModel, guestStatuses, ownAttendee, detailVars, startDate,
                   endDate, startTime, endTime, allDay, isForceUpdates, envVars, newEvent,
                   updateResponse, overlap, before, processing, edits>>

\* The editor saves or deletes the event it has opened.
DeleteNext ==
    \/ Next
    \/ \E p \in Callers : deleteEvent(p)

DeleteSpec == Init /\ [][DeleteNext]_vars

\* ---------------------------------------------------------------- saving again
\* saveAndSend is called again on the same draft when the promise of the
\* call before it has settled; what that call has done is still on record.
saveAndSendAgain(p) ==
    /\ p > 1
    /\ \A q \in Callers : q < p => pc[q] = "done"
    /\ enterSaveAndSend(p)

\* The drafts of own events of a paying account.
ResaveInit == Init /\ eventType = OWN /\ accountType = "PREMIUM"

ResaveNext ==
    \/ \E x \in GuestInputs : addGuest(x)
    \/ \E x \in GuestInputs : removeAttendee(x)
    \/ \E v \in 0..1 : setSummary(v)
    \/ \E b \in BOOLEAN : setForceUpdates(b)
    \/ \E p \in Callers : saveAndSend(p)
    \/ \E p \in Callers : saveAndSendAgain(p)
    \/ \E p \in Callers : return(p)
    \/ \E p \in Callers : materialize(p)
    \/ \E p \in Callers : askForUpdates(p)
    \/ \E p \in Callers : checkBusinessFeature(p)
    \/ \E p \in Callers : passwordCheck(p)
    \/ \E p \in Callers : sendInvite(p)
    \/ \E p \in Callers : sendCancellation(p)
    \/ \E p \in Callers : saveEvent(p)
    \/ \E p \in Callers : sendUpdate(p)

ResaveSpec == ResaveInit /\ [][ResaveNext]_vars

\* The drafts of invitations: the attendance is selected, the draft is
\* saved, and saved again when the call has settled.
RetryInit == Init /\ eventType = INVITE

RetryNext ==
    \/ \E g \in GoingInputs : selectGoing(g)
    \/ \E p \in Callers : saveAndSend(p)
    \/ \E p \in Callers : saveAndSendAgain(p)
    \/ \E p \in Callers : return(p)
    \/ \E p \in Callers : materialize(p)
    \/ \E p \in Callers : respondToOrganizer(p)
    \/ \E p \in Callers : saveEvent(p)

RetrySpec == RetryInit /\ [][RetryNext]_vars

\* ------------------------------------------------------------------ properties
\* Vocabulary over the calls an invocation has made so far.
Sends == {"sendInvite", "sendCancellation", "sendUpdate"}
Persists == {"createEvent", "updateEvent"}
Errors == {"TooManyRequestsError", "UserError:requestTooLarge_msg",
           "BusinessFeatureRequiredError", "UserError:timeFormatInvalid_msg",
           "UserError:startAfterEnd_label", "Error"}

CallsOf(p, ops) == {i \in 1..Len(calls[p]) : calls[p][i].op \in ops}

Answered(p, op, outcome) ==
    \E i \in 1..Len(calls[p]) : calls[p][i].op = op /\ calls[p][i].outcome = outcome

AllPersists == UNION {{<<p, i>> : i \in CallsOf(p, Persists)} : p \in Callers}

\* the rosters and the ledger are what the caller saw when it made the call
RostersAsBefore(p) ==
    /\ before[p].inv = inviteModel
    /\ before[p].upd = updateModel
    /\ before[p].can = cancelModel
    /\ before[p].gs = guestStatuses

\* C1 (as stated): when a saveAndSend was made while another one was in
\* progress and the one that was accepted has returned true, the two have
\* persisted the event exactly once.
C1_ExactlyOneWrite ==
    /\ \E p \in Callers : overlap[p] /\ pc[p] = "done"
    /\ \E q \in Callers : ~overlap[q] /\ pc[q] = "done" /\ result[q] = "true"
    => Cardinality(AllPersists) = 1

\* C1: a saveAndSend made while another saveAndSend on the draft is in
\* progress returns false at once and calls neither the calendar model, the
\* distributor nor a confirmation callback; at most one invocation is ever in
\* progress, and overlapping invocations persist the event at most once:
\* exactly once when the call that was accepted returns true and the account
\* is not an external one, for which _saveEvent stores nothing.
C1_SingleFlight ==
    /\ Cardinality({p \in Callers : InProgress(p)}) <= 1
    /\ \A p \in Callers :
          overlap[p] /\ pc[p] # "idle" =>
              /\ pc[p] = "done"
              /\ result[p] = "false"
              /\ calls[p] = <<>>
    /\ (\E p \in Callers : overlap[p]) =>
          /\ Cardinality(AllPersists) <= 1
          /\ /\ \E q \in Callers : pc[q] = "done" /\ result[q] = "true"
             /\ accountType # "EXTERNAL"
             => Cardinality(AllPersists) = 1

C1_Witness ==
    \E p, q \in Callers :
        /\ overlap[p] /\ pc[p] = "done" /\ result[p] = "false"
        /\ ~overlap[q] /\ pc[q] = "done" /\ result[q] = "true"
        /\ Cardinality(CallsOf(q, Persists)) = 1

\* C2: the guard is set exactly while an invocation is in progress, so every
\* exit of saveAndSend has cleared it; a saveAndSend made when no invocation
\* is in progress is accepted; and every invocation that was accepted
\* settles, with the guard cleared.
C2_GuardCleared ==
    /\ [][/\ processing' <=> \E p \in Callers : InProgress(p)'
          /\ \A p \in Callers :
                /\ pc[p] = "idle" /\ pc'[p] # "idle"
                /\ ~\E q \in Callers : InProgress(q)
                => InProgress(p)']_vars
    /\ \A p \in Callers : InProgress(p) ~> (pc[p] = "done" /\ ~processing)

C2_Witness ==
    \E p \in Callers :
        /\ pc[p] = "done"
        /\ result[p] = "TooManyRequestsError"
        /\ CallsOf(p, Persists) # {}
        /\ ~processing

\* C3: the calls of one save to the distributor and the calendar model are
\* made in the order sendInvite, sendCancellation, createEvent/updateEvent,
\* sendUpdate, and each is made only after the ones before it succeeded.
Rank(op) ==
    IF op = "sendInvite" THEN 1
    ELSE IF op = "sendCancellation" THEN 2
    ELSE IF op \in Persists THEN 3
    ELSE 4

C3_DispatchOrder ==
    \A p \in Callers :
        \A i, j \in CallsOf(p, Sends \cup Persists) :
            i < j => /\ calls[p][i].outcome = "ok"
                     /\ Rank(calls[p][i].op) < Rank(calls[p][j].op)

C3_Witness ==
    \E p \in Callers :
        /\ pc[p] = "done" /\ result[p] = "true"
        /\ \A op \in Sends : CallsOf(p, {op}) # {}
        /\ CallsOf(p, Persists) # {}

\* C4: when askForUpdates answers cancel, saveAndSend returns false, has
\* called none of sendInvite, sendCancellation, sendUpdate, createEvent and
\* updateEvent, and the rosters and the ledger are what they were before.
C4_CancelIsClean ==
    \A p \in Callers :
        Answered(p, "askForUpdates", "cancel") =>
            /\ pc[p] = "done"
            /\ result[p] = "false"
            /\ CallsOf(p, Sends \cup Persists) = {}
            /\ RostersAsBefore(p)

C4_Witness ==
    \E p \in Callers :
        /\ Answered(p, "askForUpdates", "cancel")
        /\ pc[p] = "done"
        /\ Len(inviteModel.bcc) > 0
        /\ Len(cancelModel.bcc) > 0

\* C5: on the notify-and-save path askForUpdates is called once when the
\* update roster is not empty and updates are not forced, and not at all
\* otherwise; with forced updates and a non-empty update roster sendUpdate is
\* sent as for the answer yes; with an empty update roster it is never sent.
C5_AskForUpdates ==
    \A p \in Callers :
        /\ Cardinality(CallsOf(p, {"askForUpdates"})) <= 1
        /\ updateResponse[p] # "none" =>
              /\ CallsOf(p, {"askForUpdates"}) # {}
                    <=> (Len(updateModel.bcc) > 0 /\ ~isForceUpdates)
              /\ Len(updateModel.bcc) = 0 => CallsOf(p, {"sendUpdate"}) = {}
              /\ Len(updateModel.bcc) > 0 /\ isForceUpdates =>
                    /\ updateResponse[p] = "yes"
                    /\ pc[p] = "done" /\ result[p] = "true" =>
                          Answered(p, "sendUpdate", "ok")

C5_Witness ==
    \E p \in Callers :
        /\ isForceUpdates /\ Len(updateModel.bcc) > 0
        /\ pc[p] = "done" /\ result[p] = "true"
        /\ CallsOf(p, {"askForUpdates"}) = {}
        /\ Answered(p, "sendUpdate", "ok")

\* the guests the caller saw as new when it made the call
NewGuestsBefore(p) == {x \in SeqToSet(before[p].inv.bcc) : before[p].gs[x] = ADDED}

NotifyLabels == {"askForUpdates", "checkBusinessFeature", "passwordCheck",
                 "sendInvite", "sendCancellation", "sendUpdate"}

PastBusinessCheck(p) ==
    /\ updateResponse[p] \in {"yes", "no"}
    /\ pc[p] # "checkBusinessFeature"

\* the check found the feature required and missing: a free account, or a
\* paying one without the feature that is not on a new paid plan
FeatureWasMissing(p) ==
    accountType = "FREE" \/ Answered(p, "isNewPaidPlan", "false")

\* C8: when the business feature is required and missing at the check of
\* the protocol, no sendInvite, sendCancellation or sendUpdate is sent; a
\* save with an answer yes, a non-empty invite roster or a non-empty cancel
\* roster fails with BusinessFeatureRequiredError and has neither sent nor
\* persisted anything.
C8_BusinessFeatureRequired ==
    \A p \in Callers :
        PastBusinessCheck(p) /\ FeatureWasMissing(p) =>
            /\ CallsOf(p, Sends) = {}
            /\ \/ updateResponse[p] = "yes"
               \/ Len(inviteModel.bcc) > 0
               \/ Len(cancelModel.bcc) > 0
               => /\ pc[p] = "done"
                  /\ result[p] = "BusinessFeatureRequiredError"
                  /\ CallsOf(p, Sends \cup Persists) = {}

C8_Witness ==
    \E p \in Callers :
        /\ PastBusinessCheck(p) /\ Answered(p, "isNewPaidPlan", "false")
        /\ updateResponse[p] = "no"
        /\ Len(inviteModel.bcc) = 0 /\ Len(cancelModel.bcc) > 0
        /\ result[p] = "BusinessFeatureRequiredError"

\* C9: when the caller declines to send with insecure passwords, saveAndSend
\* returns false and has called none of sendInvite, sendCancellation,
\* sendUpdate, createEvent and updateEvent, whatever it answered before.
C9_DeclinedPassword ==
    \A p \in Callers :
        Answered(p, "askInsecurePassword", "false") =>
            /\ pc[p] = "done"
            /\ result[p] = "false"
            /\ CallsOf(p, Sends \cup Persists) = {}

C9_Witness ==
    \E p \in Callers :
        /\ Answered(p, "askForUpdates", "yes")
        /\ Answered(p, "askInsecurePassword", "false")
        /\ pc[p] = "done" /\ result[p] = "false"

\* the attendees of an event with the status ADDED
AddedIn(event) == {k \in 1..Len(event.attendees) : event.attendees[k].status = ADDED}

\* C10: sendInvite is called only with an event that has an attendee of
\* status ADDED; after it succeeded those attendees are NEEDS_ACTION in the
\* ledger and in the event every later createEvent/updateEvent of the save
\* is given; after it failed they are still ADDED in the ledger, the save
\* has failed and no createEvent/updateEvent was called.
C10_SendInvite ==
    \A p \in Callers :
        \A i \in CallsOf(p, {"sendInvite"}) :
            LET sent == calls[p][i].event
            IN /\ AddedIn(sent) # {}
               /\ calls[p][i].outcome = "ok" =>
                     \A k \in AddedIn(sent) :
                        /\ guestStatuses[sent.attendees[k].address] = NEEDS_ACTION
                        /\ \A j \in CallsOf(p, Persists) :
                              /\ j > i
                              /\ calls[p][j].event.attendees[k].address = sent.attendees[k].address
                              /\ calls[p][j].event.attendees[k].status = NEEDS_ACTION
               /\ calls[p][i].outcome # "ok" =>
                     /\ \A k \in AddedIn(sent) :
                           guestStatuses[sent.attendees[k].address] = ADDED
                     /\ pc[p] = "done" /\ result[p] \in Errors
                     /\ CallsOf(p, Persists) = {}

C10_Witness ==
    \E p \in Callers :
        /\ Answered(p, "sendInvite", "ok")
        /\ \E j \in CallsOf(p, Persists) : calls[p][j].outcome = "ok"
        /\ pc[p] = "done" /\ result[p] = "true"

\* the rosters an address is on
RostersOf(x) ==
    {r \in {"invite", "update", "cancel"} :
        x \in SeqToSet((CASE r = "invite" -> inviteModel
                          [] r = "update" -> updateModel
                          [] OTHER -> cancelModel).bcc)}

\* C11: no address is on more than one of the invite, update and cancel
\* rosters at the same time.
C11_RostersDisjoint == \A x \in Addr : Cardinality(RostersOf(x)) <= 1

C11_Witness ==
    \E x \in Addr : RostersOf(x) = {"invite", "cancel"} /\ guestStatuses[x] = ADDED

C12_NoSelfInviteCleaned ==
    \A i \in 1..Len(inviteModel.bcc) :
        cleanMailAddress(inviteModel.bcc[i]) \notin OwnMailAddresses

\* the attendee of the original event that is the editor, 0 when there is none
OriginalOwnIndex == findAttendeeIndex(existingEvent.attendees, OwnMailAddresses)

\* the status the ledger holds for that attendee
SelectedOwnStatus == guestStatuses[existingEvent.attendees[OriginalOwnIndex].address]

\* the editor is on the original event and has selected an answer other
\* than needs-action that the original event does not hold
ResponseDue ==
    /\ OriginalOwnIndex # 0
    /\ SelectedOwnStatus # NEEDS_ACTION
    /\ existingEvent.attendees[OriginalOwnIndex].status # SelectedOwnStatus

\* what the respond-to-organizer step of invocation p does to its call log
RespondStep(p) ==
    /\ eventType = INVITE
    /\ CallsOf(p, {"sendResponse"}) = {}
    /\ IF ResponseDue
       THEN \E outcome \in Outcomes :
              /\ calls'[p] = Append(calls[p],
                     [op |-> "sendResponse", outcome |-> outcome, event |-> newEvent[p],
                      to |-> <<existingEvent.organizer>>, status |-> SelectedOwnStatus])
              /\ existingEvent.organizer # Null
              /\ pc'[p] = "saveEvent" <=> outcome = "ok"
       ELSE /\ calls'[p] = calls[p]
            /\ pc'[p] = "saveEvent"

\* the call log of invocation p: at most one response, sent before the
\* event is persisted; a storing account that returns true has persisted once
RespondLog(p) ==
    /\ Cardinality(CallsOf(p, {"sendResponse"})) <= 1
    /\ \A j \in CallsOf(p, Persists) : \A i \in CallsOf(p, {"sendResponse"}) :
          i < j /\ calls[p][i].outcome = "ok"
    /\ eventType = INVITE /\ pc[p] = "done" /\ result[p] = "true" /\ accountType # "EXTERNAL"
          => /\ Cardinality(CallsOf(p, Persists)) = 1
             /\ calls[p][Len(calls[p])].op \in Persists

\* C13: when a save of an invite reaches the respond-to-organizer protocol,
\* sendResponse is called if and only if the editor is an attendee of the
\* original event and the selected status is neither needs-action nor the
\* status on the original event; the call goes to the original organizer
\* and carries the selected status and the materialized event; the save
\* step follows only when no response was due or the response was sent; an
\* invocation calls sendResponse at most once, persists only after it, and
\* an invocation of a storing account that returns true has persisted once.
C13_RespondToOrganizer ==
    [][\A p \in Callers :
          /\ pc[p] = "respondToOrganizer" /\ pc'[p] # "respondToOrganizer" => RespondStep(p)
          /\ RespondLog(p)']_vars

\* an invite whose own attendee has lost the ledger entry: the save has
\* failed on the missing status, without a response and without persisting
C13_Witness ==
    \E p \in Callers :
        /\ eventType = INVITE
        /\ OriginalOwnIndex # 0 /\ SelectedOwnStatus = NoStatus
        /\ pc[p] = "done" /\ result[p] = "Error"
        /\ calls[p] = <<>>

\* C13 on the drafts whose ledger holds a status for the own attendee of
\* the original event: the respond-to-organizer protocol is as C13 states.
C13_RespondWithLedgerEntry ==
    [][\A p \in Callers :
          /\ (/\ pc[p] = "respondToOrganizer" /\ pc'[p] # "respondToOrganizer"
              /\ OriginalOwnIndex # 0 => SelectedOwnStatus # NoStatus)
                => RespondStep(p)
          /\ RespondLog(p)']_vars

\* a declined invitation: the response went to the organizer, then the
\* event was persisted
C13_ResponseSent ==
    \E p \in Callers :
        /\ eventType = INVITE
        /\ pc[p] = "done" /\ result[p] = "true"
        /\ Len(calls[p]) = 2
        /\ calls[p][1].op = "sendResponse" /\ calls[p][1].status = DECLINED
        /\ calls[p][1].to = <<"a">>
        /\ calls[p][2].op \in Persists

\* the editor's calendars hold the owning calendar of the event
InEditorsCalendars(event) == event.ownerGroup # "none"

\* C14 (as stated): the role follows the original event; in an own calendar
\* the event is an OwnEvent if it has no organizer, an own organizer or no
\* guests, where an event whose only attendee is the editor has no guests.
C14_RoleWithoutGuests ==
    ~NotConstructed =>
        eventType =
            IF ~existingEvent.exists THEN OWN
            ELSE IF ~InEditorsCalendars(existingEvent) THEN INVITE
            ELSE IF existingEvent.ownerGroup = "rw" THEN SHARED_RW
            ELSE IF existingEvent.ownerGroup = "ro" THEN SHARED_RO
            ELSE IF \/ existingEvent.organizer = Null
                    \/ existingEvent.organizer \in OwnMailAddresses
                    \/ Len(existingEvent.attendees) = 0
                    \/ /\ Len(existingEvent.attendees) = 1
                       /\ cleanMailAddress(existingEvent.attendees[1].address) \in OwnMailAddresses
            THEN OWN
            ELSE INVITE

\* C14: the role is a function of the original event with one of the four
\* roles as its value: no original event gives OwnEvent; an owning calendar
\* that is not among the editor's gives Invite; a shared calendar gives
\* SharedReadWrite with write capability and SharedReadOnly without; an own
\* calendar gives OwnEvent if the event has no organizer, an organizer that
\* is one of the editor's addresses, or no attendee at all, and Invite
\* otherwise, also when the only attendee is the editor.
C14_Role ==
    ~NotConstructed =>
        /\ eventType \in {OWN, INVITE, SHARED_RW, SHARED_RO}
        /\ eventType = OWN <=>
              \/ ~existingEvent.exists
              \/ /\ existingEvent.ownerGroup = "own"
                 /\ \/ existingEvent.organizer = Null
                    \/ existingEvent.organizer \in OwnMailAddresses
                    \/ existingEvent.attendees = <<>>
        /\ eventType = SHARED_RW <=> existingEvent.exists /\ existingEvent.ownerGroup = "rw"
        /\ eventType = SHARED_RO <=> existingEvent.exists /\ existingEvent.ownerGroup = "ro"
        /\ eventType = INVITE <=>
              /\ existingEvent.exists
              /\ \/ ~InEditorsCalendars(existingEvent)
                 \/ /\ existingEvent.ownerGroup = "own"
                    /\ existingEvent.organizer \in ForeignAddresses
                    /\ existingEvent.attendees # <<>>

\* an event in an own calendar with a foreign organizer whose only
\* attendee is the editor has been opened: it is an invite
C14_Witness ==
    /\ existingEvent.exists /\ existingEvent.ownerGroup = "own"
    /\ existingEvent.organizer = "a"
    /\ Len(existingEvent.attendees) = 1 /\ existingEvent.attendees[1].address = "me"
    /\ eventType = INVITE

\* the original event has guests: attendees, and not just the editor alone
OriginalHasGuests ==
    /\ existingEvent.attendees # <<>>
    /\ ~(/\ Len(existingEvent.attendees) = 1
         /\ cleanMailAddress(existingEvent.attendees[1].address) \in OwnMailAddresses)

AllOwnAddresses(list) ==
    /\ SeqToSet(list) = OwnMailAddresses
    /\ Len(list) = Cardinality(OwnMailAddresses)

SetterOutcome(field, value) ==
    IF repeat[field] = value THEN repeat' = repeat
    ELSE /\ repeat' # NoRule
         /\ repeat'[field] = value
         /\ repeat'.excludedDates = <<>>

\* C16: on a draft whose repeat rule has exclusions, the setters of the
\* frequency, the interval, the end type, the number of occurrences (of a
\* rule that ends after a count) and the until-date (of a rule that ends
\* on a date) empty the exclusions when they are called with another value
\* than the rule holds, and leave the rule and its exclusions as they are
\* when they are called with the value it holds.
C16_SettersClearExclusions ==
    [][repeat # NoRule /\ repeat.excludedDates # <<>> =>
          /\ \A f \in {DAILY, WEEKLY} :
                onRepeatPeriodSelected(f) => SetterOutcome("frequency", f)
          /\ \A i \in 1..MaxInterval :
                onRepeatIntervalChanged(i) => SetterOutcome("interval", i)
          /\ \A t \in {EndNever, EndCount, EndUntilDate} :
                onRepeatEndTypeChanged(t) => SetterOutcome("endType", t)
          /\ \A v \in 1..MaxEndValue :
                onEndOccurencesSelected(v) /\ repeat.endType = EndCount
                    => SetterOutcome("endValue", v)
          /\ \A d \in UntilInstants :
                onRepeatEndDateSelected(d) /\ repeat.endType = EndUntilDate
                    => SetterOutcome("endValue", d)]_vars

\* the interval of a rule with exclusions was changed: they are gone
C16_Witness ==
    /\ existingEvent.exists /\ existingEvent.repeatRule # NoRule
    /\ existingEvent.repeatRule.excludedDates # <<>>
    /\ repeat # NoRule
    /\ repeat.interval # existingEvent.repeatRule.interval
    /\ repeat.frequency = existingEvent.repeatRule.frequency
    /\ repeat.endType = existingEvent.repeatRule.endType
    /\ repeat.excludedDates = <<>>

\* list l without its k-th entry
Without(l, k) == SubSeq(l, 1, k - 1) \o SubSeq(l, k + 1, Len(l))

\* C17: when excludeThisOccurrence persists the first occurrence of a
\* series whose exclusions were sorted from earliest to latest, the
\* exclusions it persists are sorted from earliest to latest and are the
\* old ones with the start of the occurrence of the draft put in, wherever
\* that start lies among them.
C17_ExclusionInserted ==
    [][\A p \in Callers :
          (/\ Len(calls'[p]) = Len(calls[p]) + 1
           /\ originalEvent.exists /\ originalEvent.repeatRule # NoRule
           /\ IsSorted(originalEvent.repeatRule.excludedDates)) =>
              LET call == calls'[p][Len(calls'[p])]
                  old == originalEvent.repeatRule.excludedDates
                  new == call.event.repeatRule.excludedDates
              IN /\ call.op = "updateEvent"
                 /\ IsSorted(new)
                 /\ \E k \in 1..Len(new) :
                       /\ new[k] = existingEvent.startTime
                       /\ Without(new, k) = old
                 /\ call.event = [originalEvent EXCEPT !.repeatRule.excludedDates = new]]_vars

\* the occurrence between two excluded ones has been excluded
C17_Witness ==
    \E p \in Callers :
        /\ pc[p] = "done"
        /\ Len(calls[p]) = 1
        /\ calls[p][1].op = "updateEvent" /\ calls[p][1].outcome = "ok"
        /\ existingEvent.repeatRule.excludedDates =
              <<MinutesPerDay + 480, (3 * MinutesPerDay) + 480>>
        /\ existingEvent.startTime = (2 * MinutesPerDay) + 480
        /\ calls[p][1].event.repeatRule.excludedDates =
              <<MinutesPerDay + 480, (2 * MinutesPerDay) + 480, (3 * MinutesPerDay) + 480>>

\* how often the attendee list holds the pair of cleaned address and status
PairCount(attendeeList, address, status) ==
    Cardinality({i \in 1..Len(attendeeList) :
                    /\ cleanMailAddress(attendeeList[i].address) = address
                    /\ attendeeList[i].status = status})

\* the fields whose values the diff detector compares as they are
ComparedFields ==
    {"startTime", "endTime", "description", "summary", "location",
     "invitedConfidentially", "uid", "organizer", "repeatRule"}

\* C18: _hasChanges answers true exactly when there is no original event,
\* or the candidate differs from it in the start, the end, the
\* description, the summary, the location, the confidentiality, the UID,
\* the organizer address, the repeat rule with its exclusions, or the
\* pairs of address and status of the attendees; the sequence number and
\* the identifiers do not count.
C18_DiffDetector ==
    \A p \in Callers :
        pc[p] = "done" /\ newEvent[p].exists =>
            (result[p] = "true" <=>
                \/ ~existingEvent.exists
                \/ \E f \in ComparedFields : newEvent[p][f] # existingEvent[f]
                \/ Len(newEvent[p].attendees) # Len(existingEvent.attendees)
                \/ \E x \in Addr, st \in {ADDED, NEEDS_ACTION, ACCEPTED, DECLINED, TENTATIVE} :
                      PairCount(newEvent[p].attendees, x, st)
                         # PairCount(existingEvent.attendees, x, st))

\* a candidate with another sequence number and without the identifier of
\* the original, and nothing else changed, was found unchanged
C18_Witness ==
    \E p \in Callers :
        /\ pc[p] = "done" /\ result[p] = "false"
        /\ existingEvent.exists /\ existingEvent.repeatRule # NoRule
        /\ newEvent[p].sequence # existingEvent.sequence
        /\ newEvent[p].hasId # existingEvent.hasId
        /\ newEvent[p].attendees # existingEvent.attendees

\* the invocation of p has materialized the draft of an own event that was
\* hydrated from a persisted event with a UID and has not been edited
UneditedOwn(p) ==
    /\ edits = 0 /\ ~isForceUpdates
    /\ eventType = OWN
    /\ existingEvent.exists /\ existingEvent.uid # Null
    /\ newEvent[p].exists

\* the materialized event of p has the values the diff detector compares
\* of the persisted event, and p goes straight to the store: no
\* askForUpdates, no mail, one write when it has returned true
SavedAsUnchanged(p) ==
    /\ \A f \in ComparedFields : newEvent[p][f] = existingEvent[f]
    /\ Len(newEvent[p].attendees) = Len(existingEvent.attendees)
    /\ \A x \in Addr, st \in {ADDED, NEEDS_ACTION, ACCEPTED, DECLINED, TENTATIVE} :
          PairCount(newEvent[p].attendees, x, st) = PairCount(existingEvent.attendees, x, st)
    /\ pc[p] \in {"saveEvent", "done"}
    /\ updateResponse[p] = "none"
    /\ CallsOf(p, {"askForUpdates"} \cup Sends) = {}
    /\ pc[p] = "done" /\ result[p] = "true" =>
          Len(calls[p]) = 1 /\ calls[p][1].op \in Persists

C19_OrganizerReplaced ==
    \E p \in Callers :
        /\ UneditedOwn(p)
        /\ newEvent[p].organizer # existingEvent.organizer
        /\ pc[p] = "done" /\ result[p] = "true"

NotOrganizerRoles == {INVITE, SHARED_RO, SHARED_RW}

\* C20: for an event whose role is Invite, SharedReadOnly or
\* SharedReadWrite, no saveAndSend and no deleteEvent has dispatched
\* sendInvite, sendUpdate or sendCancellation, whatever guests were added
\* or removed and whatever attendance was selected before.
C20_OnlyOrganizerSends ==
    \A p \in Callers :
        eventType \in NotOrganizerRoles =>
            \A i \in 1..Len(calls[p]) : calls[p][i].op \notin Sends

\* an event with guests in a calendar shared with the editor was deleted
\* after a guest had been removed from the draft: the guest is on the
\* cancel roster, and the store was the only one called
C20_Witness ==
    \E p \in Callers :
        /\ eventType \in {SHARED_RO, SHARED_RW}
        /\ Len(existingEvent.attendees) > 1
        /\ Len(cancelModel.bcc) > 0
        /\ pc[p] = "done" /\ result[p] = "void"
        /\ Len(calls[p]) = 1 /\ calls[p][1].op = "deleteEvent"

\* an invitation was saved after a guest had been added to the draft and
\* going had been selected: the answer went to the organizer, the event
\* was stored
C20_InviteSaved ==
    \E p \in Callers :
        /\ eventType = INVITE
        /\ Len(inviteModel.bcc) > 0
        /\ pc[p] = "done" /\ result[p] = "true"
        /\ \E i \in 1..Len(calls[p]) : calls[p][i].op = "sendResponse"
        /\ \E i \in 1..Len(calls[p]) : calls[p][i].op \in Persists

\* the organizer who deletes an own event with guests tells them
C20_OrganizerCancels ==
    \E p \in Callers :
        /\ eventType = OWN
        /\ pc[p] = "done" /\ result[p] = "void"
        /\ Len(calls[p]) = 2
        /\ calls[p][1].op = "sendCancellation" /\ calls[p][2].op = "deleteEvent"

\* a deleteEvent of p on an existing event settles in this step
DeleteStep(p) == Quiescent /\ pc'[p] = "done" /\ existingEvent.exists

\* the attendees of the event that are not the editor and can be mailed a
\* cancellation: a confidential cancel roster drops the external ones that
\* have no password
CancelRecipientsOf(event) ==
    {x \in {event.attendees[i].address : i \in 1..Len(event.attendees)} :
        /\ cleanMailAddress(x) \notin OwnMailAddresses
        /\ ~(/\ cancelModel.confidential
             /\ RecipientType(x) = "EXTERNAL"
             /\ cancelModel.passwords[x] = "")}

\* what deleteEvent has called when a cancellation to the recipients is due
\* or not: the cancellation with the incremented copy first and the store
\* only after it went out, or the store alone with the original event
DeleteLog(log, due, recipients) ==
    IF due
    THEN /\ Len(log) >= 1
         /\ log[1].op = "sendCancellation"
         /\ {log[1].to[i] : i \in 1..Len(log[1].to)} = recipients
         /\ log[1].event = [existingEvent EXCEPT !.sequence = @ + 1]
         /\ IF log[1].outcome = "ok"
            THEN Len(log) = 2 /\ log[2].op = "deleteEvent" /\ log[2].event = existingEvent
            ELSE Len(log) = 1
    ELSE /\ Len(log) = 1
         /\ log[1].op = "deleteEvent"
         /\ log[1].event = existingEvent

\* C21 (as stated): deleteEvent sends a cancellation, before it calls the
\* store, exactly when the event is an own event with an attendee other
\* than the editor who remains a cancel recipient; the cancellation goes to
\* the attendees that are not the editor only and carries a copy of the
\* event with the next sequence number; in every other case the store's
\* deleteEvent is called once with the original event and nothing is sent.
C21_DeleteCancels ==
    [][\A p \in Callers :
          DeleteStep(p) =>
              DeleteLog(calls'[p],
                        eventType = OWN /\ CancelRecipientsOf(existingEvent) # {},
                        CancelRecipientsOf(existingEvent))]_vars

\* C21 restricted to the events the code expects: the editor is one of the
\* attendees of an own event, and no own address has been put on the
\* cancel roster.
C21_DeleteCancelsWithOwnAttendee ==
    [][\A p \in Callers :
          /\ DeleteStep(p)
          /\ eventType = OWN => findOwnAttendeeIn(existingEvent.attendees) # Null
          /\ \A i \in 1..Len(cancelModel.bcc) :
                cleanMailAddress(cancelModel.bcc[i]) \notin OwnMailAddresses
          => DeleteLog(calls'[p],
                       eventType = OWN /\ CancelRecipientsOf(existingEvent) # {},
                       CancelRecipientsOf(existingEvent))]_vars

\* an own event whose only attendee is a guest was deleted without a
\* cancellation
C21_GuestNotTold ==
    \E p \in Callers :
        /\ eventType = OWN /\ existingEvent.exists
        /\ Len(existingEvent.attendees) = 1
        /\ existingEvent.attendees[1].address \in ForeignAddresses
        /\ ~cancelModel.confidential
        /\ pc[p] = "done" /\ result[p] = "void"
        /\ Len(calls[p]) = 1 /\ calls[p][1].op = "deleteEvent"

\* the cancellation of a deleted own event was mailed to the editor
C21_Witness ==
    \E p \in Callers :
        /\ eventType = OWN
        /\ pc[p] = "done" /\ result[p] = "void"
        /\ Len(calls[p]) = 2 /\ calls[p][1].op = "sendCancellation"
        /\ \E i \in 1..Len(calls[p][1].to) : calls[p][1].to[i] \in OwnMailAddresses

\* the address is an attendee of the original persisted event
OnOriginalEvent(x) ==
    existingEvent.exists /\ findAttendeeIndex(existingEvent.attendees, {x}) # 0

\* what removeAttendee(x) leaves behind: x on neither the invite nor the
\* update roster and without a ledger entry, on the cancel roster exactly
\* when it is an attendee of the original event, and nothing changed when
\* it was on no roster and not on the original event
Removed(x) ==
    /\ findRecipientIndex(inviteModel'.bcc, x) = 0
    /\ findRecipientIndex(updateModel'.bcc, x) = 0
    /\ \A y \in Addr : cleanMailAddress(y) = cleanMailAddress(x) => guestStatuses'[y] = NoStatus
    /\ findRecipientIndex(cancelModel'.bcc, x) # 0 <=> OnOriginalEvent(x)
    /\ /\ findRecipientIndex(inviteModel.bcc, x) = 0
       /\ findRecipientIndex(updateModel.bcc, x) = 0
       /\ findRecipientIndex(cancelModel.bcc, x) = 0
       /\ ~OnOriginalEvent(x)
       => UNCHANGED <<draftVars, existingEvent, originalEvent>>

\* C22 (as stated): removeAttendee(guest) leaves the address of the guest on
\* neither the invite nor the update roster and without a ledger entry; it
\* is on the cancel roster afterwards exactly when it is an attendee of the
\* original persisted event; for an address on no roster and not on the
\* original event nothing changes.
C22_RemoveAttendee ==
    [][\A x \in GuestInputs : removeAttendee(x) => Removed(x)]_vars

\* C22 for the attendees that are not the editor
C22_RemoveGuest ==
    [][\A x \in GuestInputs :
          removeAttendee(x) /\ cleanMailAddress(x) \notin OwnMailAddresses => Removed(x)]_vars

\* the editor's own attendee of the original event was removed and still
\* has its ledger entry
C22_Witness ==
    /\ existingEvent.exists /\ edits = 1
    /\ ownAttendee # Null /\ guestStatuses[ownAttendee] # NoStatus
    /\ findRecipientIndex(cancelModel.bcc, ownAttendee) # 0

\* a guest of the original event was taken from the update roster to the
\* cancel roster and has no ledger entry
C22_GuestRemoved ==
    /\ existingEvent.exists /\ edits = 1
    /\ Len(cancelModel.bcc) > 0
    /\ \A i \in 1..Len(cancelModel.bcc) :
          /\ cancelModel.bcc[i] \in ForeignAddresses
          /\ guestStatuses[cancelModel.bcc[i]] = NoStatus
          /\ findRecipientIndex(updateModel.bcc, cancelModel.bcc[i]) = 0

\* C23: addGuest with an address that is already an attendee changes
\* neither the rosters, nor the ledger, nor the self-attendee, nor the
\* organizer; addGuest with a foreign address that is not an attendee yet
\* appends it to the invite roster with the ledger status ADDED, and when
\* it is the first attendee of an own event the editor joins as accepted,
\* so that the attendees are the editor, accepted, and the guest, added.
C23_AddGuest ==
    [][\A x \in GuestInputs :
          addGuest(x) =>
              /\ findAttendeeIndex(attendees, {x}) # 0 =>
                    UNCHANGED <<inviteModel, updateModel, cancelModel, guestStatuses,
                                ownAttendee, organizer>>
              /\ x \in ForeignAddresses /\ findAttendeeIndex(attendees, {x}) = 0 =>
                    /\ inviteModel'.bcc = Append(inviteModel.bcc, x)
                    /\ guestStatuses'[x] = ADDED
                    /\ UNCHANGED <<updateModel, cancelModel, organizer>>
                    /\ eventType = OWN /\ attendees = <<>> =>
                          /\ ownAttendee' \in OwnMailAddresses
                          /\ attendees' = <<[address |-> ownAttendee', status |-> ACCEPTED],
                                            [address |-> x, status |-> ADDED]>>
                    /\ attendees # <<>> =>
                          /\ ownAttendee' = ownAttendee
                          /\ \A y \in Addr \ {x} : guestStatuses'[y] = guestStatuses[y]]_vars

\* the first guest was added to an own event without attendees, and the
\* editor has joined
C23_Witness ==
    /\ eventType = OWN /\ edits = 1
    /\ (existingEvent.exists => existingEvent.attendees = <<>>)
    /\ Len(attendees) = 2
    /\ attendees[1] = [address |-> DefaultSender, status |-> ACCEPTED]
    /\ attendees[2].address \in ForeignAddresses /\ attendees[2].status = ADDED
    /\ inviteModel.bcc = <<attendees[2].address>>

\* the role is OwnEvent and the original event, if any, has no guests
\* other than the editor
OrganizerPermitted == eventType = OWN /\ (existingEvent.exists => ~OriginalHasGuests)

\* C24: setOrganizer makes the address the organizer and the self-attendee
\* when the role is OwnEvent and the original event has no guests other
\* than the editor, and leaves both as they are in every other state; the
\* organizer changes in no other state, and whether setOrganizer is
\* permitted never changes while the draft lives, however many guests
\* were added to it or removed from it.
C24_SetOrganizer ==
    [][/\ \A x \in OwnMailAddresses :
             setOrganizer(x) =>
                 IF OrganizerPermitted
                 THEN organizer' = x /\ ownAttendee' = x
                 ELSE UNCHANGED <<organizer, ownAttendee>>
       /\ organizer' # organizer => OrganizerPermitted
       /\ OrganizerPermitted' = OrganizerPermitted]_vars

\* setOrganizer has made the alias organizer and self-attendee of an own
\* event, and the draft has a guest
C24_Witness ==
    /\ eventType = OWN /\ edits = 2
    /\ organizer = "alias" /\ ownAttendee = "alias"
    /\ Len(inviteModel.bcc) = 1

Stored(p) == {i \in CallsOf(p, Persists) : calls[p][i].outcome = "ok"}

\* q has called saveAndSend after the call of p had settled
SavedAfter(p, q) == p < q /\ pc[p] = "done" /\ ~overlap[q] /\ pc[q] # "idle"

\* C26 (as stated): every successful saveAndSend on an own event persists
\* an event whose sequence number is greater than that of every version
\* persisted before, also when the same draft is saved twice in a row.
C26_SequenceGrows ==
    \A p, q \in Callers :
        eventType = OWN /\ SavedAfter(p, q) =>
            \A i \in Stored(p), j \in Stored(q) :
                calls[q][j].event.sequence > calls[p][i].event.sequence

\* every save of an own event persists the sequence number of the original
\* event plus one, 1 for a new event
C26_SequenceOfOriginalPlusOne ==
    \A p \in Callers :
        eventType = OWN =>
            \A i \in CallsOf(p, Persists) :
                calls[p][i].event.sequence
                    = IF existingEvent.exists THEN existingEvent.sequence + 1 ELSE 1

\* the same draft of an own event was saved twice in a row, both stored
C26_Witness ==
    \E p, q \in Callers :
        /\ eventType = OWN /\ existingEvent.exists /\ SavedAfter(p, q)
        /\ pc[q] = "done" /\ result[p] = "true" /\ result[q] = "true"
        /\ Stored(p) # {} /\ Stored(q) # {}

\* the addresses of the recipients of a roster that are the editor's
OwnRecipients(model) ==
    {i \in 1..Len(model.bcc) : cleanMailAddress(model.bcc[i]) \in OwnMailAddresses}

\* C27: whatever guests were added and removed, whatever attendance was
\* selected and whatever organizer was set, also when the editor's own
\* attendee of the original event was removed, none of the editor's
\* addresses is a recipient of the invite, update or cancel roster.
C27_OwnAttendeeOnNoRoster ==
    /\ OwnRecipients(inviteModel) = {}
    /\ OwnRecipients(updateModel) = {}
    /\ OwnRecipients(cancelModel) = {}

\* the update roster never holds an address of the editor
C27_NotOnUpdateRoster == OwnRecipients(updateModel) = {}

\* the editor's own attendee of the original event was removed: it is
\* still the self-attendee, and its address is the recipient of the
\* cancel roster
C27_Witness ==
    /\ existingEvent.exists /\ edits = 1
    /\ ownAttendee # Null
    /\ findAttendeeIndex(existingEvent.attendees, {ownAttendee}) # 0
    /\ cancelModel.bcc = <<ownAttendee>>
    /\ OwnRecipients(inviteModel) = {}

\* the guests a successful sendInvite of p has invited
InvitedBy(p) ==
    UNION {{calls[p][i].event.attendees[k].address :
               k \in {j \in 1..Len(calls[p][i].event.attendees) :
                         calls[p][i].event.attendees[j].status = ADDED}} :
           i \in {j \in CallsOf(p, {"sendInvite"}) : calls[p][j].outcome = "ok"}}

\* in this step a distributor or store call of the notify-and-save
\* protocol of p fails
DispatchFails(p) ==
    /\ updateResponse[p] # "none"
    /\ Len(calls'[p]) = Len(calls[p]) + 1
    /\ calls'[p][Len(calls'[p])].op \in Sends \cup Persists
    /\ calls'[p][Len(calls'[p])].outcome # "ok"

C29_OriginalUnmodified ==
    [][\A p \in Callers : pc[p] # "idle" => existingEvent' = existingEvent]_vars

\* outside the respond-to-organizer protocol no step of saveAndSend
\* modifies the original event, and the protocol changes nothing but the
\* status of the self-attendee
C29_OnlySelfAttendeeStatus ==
    [][existingEvent' # existingEvent =>
              /\ \E p \in Callers : pc[p] = "respondToOrganizer" /\ pc'[p] # pc[p]
              /\ \E i \in 1..Len(existingEvent.attendees) :
                    /\ cleanMailAddress(existingEvent.attendees[i].address) \in OwnMailAddresses
                    /\ existingEvent' =
                          [existingEvent EXCEPT !.attendees[i].status =
                              guestStatuses[existingEvent.attendees[i].address]]]_vars

\* sendResponse was rejected, and the self-attendee of the original event
\* of the invite has the selected status
C29_Witness ==
    \E p \in Callers :
        /\ eventType = INVITE
        /\ pc[p] = "done" /\ result[p] = "TooManyRequestsError"
        /\ Len(calls[p]) = 1 /\ calls[p][1].op = "sendResponse"
        /\ \E i \in 1..Len(existingEvent.attendees) :
              /\ existingEvent.attendees[i].address \in OwnMailAddresses
              /\ existingEvent.attendees[i].address # existingEvent.organizer
              /\ existingEvent.attendees[i].status \in {ACCEPTED, DECLINED}

\* the responses p has dispatched
Responses(p) == CallsOf(p, {"sendResponse"})

\* the saveAndSend of p on an invite has dispatched a response and was
\* rejected, by the distributor or by the store
ResponseFailed(p) ==
    /\ eventType = INVITE
    /\ pc[p] = "done" /\ result[p] \in Errors
    /\ Responses(p) # {}

\* C30 (as stated): when sendResponse, or the store call after it, has
\* failed during a saveAndSend on an invite, a later saveAndSend on the
\* same draft with the same selected status dispatches sendResponse with
\* that status to the organizer again.
C30_ResponseSentAgain ==
    \A p, q \in Callers :
        ResponseFailed(p) /\ SavedAfter(p, q) /\ pc[q] \in {"saveEvent", "done"} =>
            \E i \in Responses(p), j \in Responses(q) :
                /\ calls[q][j].to = calls[p][i].to
                /\ calls[q][j].status = calls[p][i].status

\* the response was rejected, the draft was saved again with the same
\* selected status, and the event was stored without any response
C30_Witness ==
    \E p, q \in Callers :
        /\ ResponseFailed(p) /\ SavedAfter(p, q)
        /\ calls[p][Len(calls[p])].op = "sendResponse"
        /\ pc[q] = "done" /\ result[q] = "true"
        /\ Responses(q) = {} /\ Stored(q) # {}

\* the save that follows a failed one stores the event with the selected
\* status of the self-attendee
C30_RetryStoresSelectedStatus ==
    \A p, q \in Callers :
        ResponseFailed(p) /\ SavedAfter(p, q) =>
            \A j \in CallsOf(q, Persists), i \in Responses(p) :
                \E k \in 1..Len(calls[q][j].event.attendees) :
                    /\ cleanMailAddress(calls[q][j].event.attendees[k].address) \in OwnMailAddresses
                    /\ calls[q][j].event.attendees[k].status = calls[p][i].status

\* the last call of p was a cancellation the distributor rejected with a
\* TooManyRequestsError, and the promise of p has settled
CancellationDelayed(p) ==
    /\ pc[p] = "done"
    /\ Len(calls[p]) > 0
    /\ calls[p][Len(calls[p])].op = "sendCancellation"
    /\ calls[p][Len(calls[p])].outcome = "TooManyRequestsError"

\* C31 (as stated): whenever the distributor raises a TooManyRequestsError
\* while a cancellation is sent, during deleteEvent as well as during the
\* notify-and-save protocol of saveAndSend, the caller receives the
\* UserError that asks to try later and never the TooManyRequestsError.
C31_DelayIsUserError ==
    \A p \in Callers :
        CancellationDelayed(p) => result[p] = "UserError:mailAddressDelay_msg"

\* C31 for deleteEvent alone
C31_DelayOnDeleteIsUserError ==
    \A p \in Callers :
        CancellationDelayed(p) /\ updateResponse[p] = "none" =>
            result[p] = "UserError:mailAddressDelay_msg"

\* the cancellation of a saveAndSend was rejected with a
\* TooManyRequestsError, and that error is what the caller got
C31_Witness ==
    \E p \in Callers :
        /\ CancellationDelayed(p) /\ updateResponse[p] # "none"
        /\ result[p] = "TooManyRequestsError"

\* the cancellation of a deleteEvent was rejected with a
\* TooManyRequestsError, and the caller got the UserError
C31_DeleteDelayed ==
    \E p \in Callers :
        /\ CancellationDelayed(p) /\ updateResponse[p] = "none"
        /\ result[p] = "UserError:mailAddressDelay_msg"

\* p leaves the insecure password question in this step
PasswordStep(p) == pc[p] = "passwordCheck" /\ pc'[p] # "passwordCheck"

\* the caller of p was asked to confirm the insecure passwords in this step
PasswordAsked(p) ==
    /\ Len(calls'[p]) = Len(calls[p]) + 1
    /\ calls'[p][Len(calls'[p])].op = "askInsecurePassword"

\* an external recipient of the model has a password that is not strong
InsecureRecipient(model) ==
    \E i \in 1..Len(model.bcc) :
        /\ RecipientType(model.bcc[i]) = "EXTERNAL"
        /\ model.passwords[model.bcc[i]] # "strong"

\* C32 (as stated): the confirmation of insecure passwords is asked exactly
\* on account of the invite roster: it is asked when the event is
\* confidential and an external recipient of the invite roster has an
\* insecure password, and it is not asked when the only recipients with
\* insecure passwords are on the update or cancel roster, even if the invite
\* roster is not empty.
C32_AskedForInvitedOnly ==
    [][\A p \in Callers :
         PasswordStep(p) =>
            (PasswordAsked(p) <=>
                inviteModel.confidential /\ InsecureRecipient(inviteModel))]_vars

\* what holds: the question is asked exactly when the invite roster is not
\* empty, the event is confidential and not an invitation, and an external
\* recipient of any of the three rosters has an insecure password
C32_AskedForAnyRoster ==
    [][\A p \in Callers :
         PasswordStep(p) =>
            (PasswordAsked(p) <=>
                /\ Len(inviteModel.bcc) > 0
                /\ inviteModel.confidential
                /\ eventType # INVITE
                /\ \/ InsecureRecipient(inviteModel)
                   \/ InsecureRecipient(updateModel)
                   \/ InsecureRecipient(cancelModel))]_vars

\* the question has been asked although no external recipient of the invite
\* roster has an insecure password
C32_Witness ==
    \E p \in Callers :
        /\ pc[p] \in {"sendInvite", "done"}
        /\ Len(calls[p]) > 0
        /\ calls[p][Len(calls[p])].op = "askInsecurePassword"
        /\ Len(inviteModel.bcc) > 0
        /\ ~InsecureRecipient(inviteModel)
        /\ InsecureRecipient(updateModel) \/ InsecureRecipient(cancelModel)

\* the question has been asked on account of a recipient of the invite roster
C32_AskedForInvited ==
    \E p \in Callers :
        /\ pc[p] \in {"sendInvite", "done"}
        /\ Len(calls[p]) > 0
        /\ calls[p][Len(calls[p])].op = "askInsecurePassword"
        /\ InsecureRecipient(inviteModel)
        /\ ~InsecureRecipient(updateModel) /\ ~InsecureRecipient(cancelModel)

\* ------------------------------------------------- dates and times of a draft
\* the instant of a date of the draft and its time of day, in minutes
InstantOf(date, time) == (date * MinutesPerDay) + (IF time = NoTime THEN 0 ELSE time)

\* rescheduleEvent: start and end move by delta, here in minutes
rescheduleEvent(delta) ==
    /\ CanEdit
    /\ LET newStartDate == InstantOf(startDate, startTime) + delta
           newEndDate == InstantOf(endDate, endTime) + delta
       IN /\ startDate' = newStartDate \div MinutesPerDay
          /\ endDate' = newEndDate \div MinutesPerDay
          /\ startTime' = newStartDate % MinutesPerDay
          /\ endTime' = newEndDate % MinutesPerDay
    /\ repeat' = deleteExcludedDates(repeat)
    /\ UNCHANGED <<originalEvent, existingEvent, eventType, organizer, possibleOrganizers, inviteModel,
                   updateModel, cancelModel, guestStatuses, ownAttendee, summary, location,
                   note, allDay, isForceUpdates, envVars, callVars, processing>>
    /\ Edited

\* the times of day the time pickers of the schedule runs hand in:
\* none, 10:00, 10:30, 22:30 and 23:45
ScheduleTimes == {NoTime, 600, 630, 1350, 1425}

\* the dates the date picker hands in: 31 December of the year before
\* TIMESTAMP_ZERO_YEAR, and the first days from Today
ScheduleDates == {0 - 1, Today, Today + 1, Today + 2}

\* the distances rescheduleEvent is called with, in minutes
ScheduleDeltas == {0 - 60, 30, MinutesPerDay}

\* the events the schedule runs open the draft on: an event of Today from
\* 10:00 that ends the same day or the next, single or a daily series
ScheduledEvents ==
    {[exists |-> TRUE, hasId |-> TRUE, ownerGroup |-> "own", organizer |-> "me",
      attendees |-> <<>>, sequence |-> 0, uid |-> "uid", invitedConfidentially |-> FALSE,
      summary |-> 0, description |-> 0, location |-> 0, repeatRule |-> r,
      startTime |-> InstantOf(Today, 600), endTime |-> e, allDay |-> FALSE] :
        r \in {NoRule} \cup {x \in RepeatRules :
                                /\ x.frequency = DAILY /\ x.interval = 1
                                /\ x.endType = EndNever /\ ValidRepeatRule(x)},
        e \in {InstantOf(Today, 630), InstantOf(Today, 1200), InstantOf(Today + 1, 630)}}

ScheduleInit ==
    /\ \E event \in ScheduledEvents :
          LET g == initGuestStatus(event)
              t == initEventTypeAndOrganizers(event)
          IN /\ existingEvent = event
             /\ originalEvent = event
             /\ eventType = t.eventType
             /\ organizer = t.organizer
             /\ possibleOrganizers = t.possibleOrganizers
             /\ inviteModel = NewSendMailModel
             /\ updateModel = g.update
             /\ cancelModel = NewSendMailModel
             /\ guestStatuses = g.statuses
             /\ ownAttendee = g.own
             /\ summary = event.summary
             /\ location = event.location
             /\ note = event.description
             /\ repeat \in RepeatDatasOf(event)
             /\ allDay = event.allDay
             /\ startDate = event.startTime \div MinutesPerDay
             /\ endDate = event.endTime \div MinutesPerDay
             /\ startTime = event.startTime % MinutesPerDay
             /\ endTime = event.endTime % MinutesPerDay
             /\ unresolved = {}
    /\ accountType = "PREMIUM"
    /\ hasBusinessFeature = FALSE
    /\ isForceUpdates = FALSE
    /\ processing = FALSE
    /\ pc = [p \in Callers |-> "idle"]
    /\ newEvent = [p \in Callers |-> NoEvent]
    /\ updateResponse = [p \in Callers |-> "none"]
    /\ result = [p \in Callers |-> "none"]
    /\ calls = [p \in Callers |-> <<>>]
    /\ overlap = [p \in Callers |-> FALSE]
    /\ before = [p \in Callers |-> NoView]
    /\ edits = 0

ScheduleNext ==
    \/ \E date \in ScheduleDates : setStartDate(date)
    \/ \E value \in ScheduleTimes : setStartTime(value)
    \/ \E value \in ScheduleTimes : setEndTime(value)
    \/ \E delta \in ScheduleDeltas : rescheduleEvent(delta)

ScheduleSpec == ScheduleInit /\ [][ScheduleNext]_vars

\* the exclusions of the draft's repeat rule
ExclusionsOf(r) == IF r = NoRule THEN <<>> ELSE r.excludedDates

\* the step moved the end date as far as the start date and left no exclusion
MovedWithStart ==
    /\ endDate' - endDate = startDate' - startDate
    /\ ExclusionsOf(repeat') = <<>>

\* C33 (as stated): every setStartDate call that changes the start date
\* moves the end date by as many days as the start date moved and empties
\* the exclusion list, also when the date is before TIMESTAMP_ZERO_YEAR and
\* is clamped to the current year; a call with the current start date changes
\* nothing.
C33_EndDateFollows ==
    [][\A date \in ScheduleDates :
         setStartDate(date) =>
            IF date = startDate THEN UNCHANGED vars
            ELSE /\ startDate' = (IF getFullYear(date) < TIMESTAMP_ZERO_YEAR
                                  THEN setFullYear(date, getFullYear(Today)) ELSE date)
                 /\ MovedWithStart]_vars

\* C33 for the dates from TIMESTAMP_ZERO_YEAR on
C33_EndDateFollowsSupportedDate ==
    [][\A date \in ScheduleDates :
         setStartDate(date) /\ getFullYear(date) >= TIMESTAMP_ZERO_YEAR =>
            IF date = startDate THEN UNCHANGED vars
            ELSE startDate' = date /\ MovedWithStart]_vars

\* a date before TIMESTAMP_ZERO_YEAR was set on a series with exclusions:
\* the start date is the same day of this year, the end date is where it
\* was, before the start date, and the exclusions are kept
C33_Witness ==
    /\ edits = 1
    /\ startDate = setFullYear(0 - 1, getFullYear(Today))
    /\ endDate = Today
    /\ Len(ExclusionsOf(repeat)) > 0

\* the start date of a series with an end on the next day was set one day
\* later: the end date is one day later and no exclusion is left
C33_SupportedDateSet ==
    /\ edits = 1
    /\ existingEvent.repeatRule # NoRule
    /\ Len(existingEvent.repeatRule.excludedDates) > 0
    /\ startDate = Today + 1 /\ startTime = 600
    /\ endDate = Today + 2 /\ endTime = 630
    /\ ExclusionsOf(repeat) = <<>>

\* C34: setStartTime always empties the exclusion list, also when the new
\* time is the old one; when start date and end date are the same day and
\* the old start, the new start and the end time are all valid, the new end
\* time is the new start plus |end - old start| minutes with the hour capped
\* at 23; when the dates differ, the end time is unchanged.
C34_SetStartTime ==
    [][\A value \in ScheduleTimes :
         setStartTime(value) =>
            /\ ExclusionsOf(repeat') = <<>>
            /\ startTime' = value
            /\ startDate # endDate => endTime' = endTime
            /\ startDate = endDate /\ value # NoTime /\ startTime # NoTime /\ endTime # NoTime =>
                  LET newEndTotalMinutes == value + Abs(endTime - startTime)
                  IN endTime' = (Min(newEndTotalMinutes \div 60, MaxHour) * 60)
                                + (newEndTotalMinutes % 60)]_vars

\* the start of a series with exclusions, 10:00 to 20:00 of one day, was set
\* to 22:30: the end time is 23:30, the hour capped, and no exclusion is left
C34_Witness ==
    /\ edits = 1
    /\ existingEvent.repeatRule # NoRule
    /\ Len(existingEvent.repeatRule.excludedDates) > 0
    /\ existingEvent.endTime = InstantOf(Today, 1200)
    /\ startDate = endDate
    /\ startTime = 1350 /\ endTime = 1410
    /\ ExclusionsOf(repeat) = <<>>

\* C40 (as stated): after setStartTime on a timed event of one day with
\* valid old start, new start and end times, the adjusted end time is never
\* earlier than the new start time, also when the adjusted hour is capped
\* at 23.
C40_EndNotBeforeStart ==
    [][\A value \in ScheduleTimes :
         /\ setStartTime(value)
         /\ startDate = endDate
         /\ value # NoTime /\ startTime # NoTime /\ endTime # NoTime
         => endTime' >= startTime']_vars

\* C40 for the calls whose adjusted hour is not capped
C40_EndNotBeforeStartUncapped ==
    [][\A value \in ScheduleTimes :
         /\ setStartTime(value)
         /\ startDate = endDate
         /\ value # NoTime /\ startTime # NoTime /\ endTime # NoTime
         /\ (value + Abs(endTime - startTime)) \div 60 <= MaxHour
         => endTime' >= startTime']_vars

\* the start of an event from 10:00 to 10:30 was set to 23:45: the end time
\* is 23:15 of the same day
C40_Witness ==
    /\ edits = 1
    /\ existingEvent.endTime = InstantOf(Today, 630)
    /\ startDate = endDate
    /\ startTime = 1425 /\ endTime = 1395

\* the start of an event from 10:00 to 10:30 was set to 22:30: the end time
\* is 23:00
C40_EndAfterStart ==
    /\ edits = 1
    /\ existingEvent.endTime = InstantOf(Today, 630)
    /\ startDate = endDate
    /\ startTime = 1350 /\ endTime = 1380

\* the instants of a list, each moved by delta
MovedBy(dates, delta) == [i \in 1..Len(dates) |-> dates[i] + delta]

\* start and end of the draft moved by delta in this step
StartAndEndMoved(delta) ==
    /\ InstantOf(startDate', startTime') = InstantOf(startDate, startTime) + delta
    /\ InstantOf(endDate', endTime') = InstantOf(endDate, endTime) + delta

\* C37 (as stated): rescheduleEvent(delta) moves the start and the end of
\* the event by delta and moves every exclusion of the repeat rule by the
\* same amount, so that there are as many exclusions after the call as
\* before.
C37_ExclusionsMoved ==
    [][\A delta \in ScheduleDeltas :
         rescheduleEvent(delta) =>
            /\ StartAndEndMoved(delta)
            /\ ExclusionsOf(repeat') = MovedBy(ExclusionsOf(repeat), delta)]_vars

\* what holds: start and end move by delta, and no exclusion is left
C37_ExclusionsDeleted ==
    [][\A delta \in ScheduleDeltas :
         rescheduleEvent(delta) =>
            /\ StartAndEndMoved(delta)
            /\ ExclusionsOf(repeat') = <<>>]_vars

\* a series with two exclusions was moved half an hour later: it has no
\* exclusion any more
C37_Witness ==
    /\ edits = 1
    /\ existingEvent.repeatRule # NoRule
    /\ Len(existingEvent.repeatRule.excludedDates) = 2
    /\ startDate = Today /\ startTime = 630
    /\ endDate = Today /\ endTime = 660
    /\ ExclusionsOf(repeat) = <<>>

\* an event without a repeat rule was moved a day later
C37_SingleEventMoved ==
    /\ edits = 1
    /\ existingEvent.repeatRule = NoRule
    /\ startDate = Today + 1 /\ startTime = 600
    /\ endDate = Today + 1 /\ endTime = 630

\* how often the instant is in the list
TimesIn(dates, instant) == Cardinality({i \in 1..Len(dates) : dates[i] = instant})

\* the exclusion list excludeThisOccurrence of p handed to updateEvent
PersistedExclusions(p) == calls[p][Len(calls[p])].event.repeatRule.excludedDates

\* excludeThisOccurrence of p has handed an event to updateEvent
ExclusionPersisted(p) ==
    /\ pc[p] = "done"
    /\ Len(calls[p]) > 0
    /\ calls[p][Len(calls[p])].op = "updateEvent"

\* C35 (as stated): the exclusion list persisted by excludeThisOccurrence
\* holds the start instant of the excluded occurrence once, also when that
\* instant was already in the exclusion list of the first occurrence.
C35_ExcludedOnce ==
    \A p \in Callers :
        ExclusionPersisted(p) =>
            TimesIn(PersistedExclusions(p), existingEvent.startTime) = 1

\* what holds: the persisted list is the list of the first occurrence with
\* one more entry for the instant, whether or not it was there
C35_ExcludedOnceMore ==
    [][\A p \in Callers :
         excludeThisOccurrence(p) /\ ExclusionPersisted(p)' =>
            LET old == originalEvent.repeatRule.excludedDates
                new == PersistedExclusions(p)'
                t == existingEvent.startTime
            IN /\ Len(new) = Len(old) + 1
               /\ TimesIn(new, t) = TimesIn(old, t) + 1
               /\ \A d \in OccurrenceStarts \ {t} : TimesIn(new, d) = TimesIn(old, d)]_vars

\* an occurrence was excluded whose instant was the one exclusion of the
\* series: the persisted list holds the instant twice
C35_Witness ==
    \E p \in Callers :
        /\ ExclusionPersisted(p)
        /\ PersistedExclusions(p) = <<existingEvent.startTime, existingEvent.startTime>>

\* an occurrence was excluded whose instant was not in the list
C35_NewExclusion ==
    \E p \in Callers :
        /\ ExclusionPersisted(p)
        /\ Len(PersistedExclusions(p)) = 2
        /\ TimesIn(PersistedExclusions(p), existingEvent.startTime) = 1

\* the attendees of one list are those of the other in some order, an
\* attendee being its address, cleaned, and its status
IsPermutationOf(attendeeList, others) ==
    /\ Len(attendeeList) = Len(others)
    /\ \E f \in [1..Len(attendeeList) -> 1..Len(attendeeList)] :
          /\ \A i, j \in 1..Len(attendeeList) : i # j => f[i] # f[j]
          /\ \A i \in 1..Len(attendeeList) :
                /\ attendeeList[i].status = others[f[i]].status
                /\ cleanMailAddress(attendeeList[i].address)
                      = cleanMailAddress(others[f[i]].address)

LedgerAddresses == {x \in DOMAIN guestStatuses : guestStatuses[x] # NoStatus}

\* the addresses of the composed attendee list
AttendeeAddresses == {attendees[i].address : i \in 1..Len(attendees)}

\* C38 (as stated): after any sequence of addGuest, removeAttendee,
\* selectGoing and setOrganizer calls the status ledger has an entry for
\* exactly the addresses of the composed attendee list: no attendee is
\* without an entry and no entry is of an address that is not an attendee.
C38_LedgerIsAttendees == LedgerAddresses = AttendeeAddresses

\* what holds: the addresses of the ledger that are not the editor's are
\* the addresses of the attendees that are not the editor's
C38_LedgerIsGuests ==
    LedgerAddresses \cap ForeignAddresses = AttendeeAddresses \cap ForeignAddresses

\* the organizer of a new own event was set to another own address: the
\* self-attendee is that address and the ledger has no entry for it
C38_Witness ==
    /\ edits = 1 /\ eventType = OWN /\ ~existingEvent.exists
    /\ ownAttendee = "alias"
    /\ AttendeeAddresses = {"alias"}
    /\ LedgerAddresses = {}

\* an own address was added as a guest of an invitation whose attendees do
\* not include the editor: the ledger has an entry for it and it is no
\* attendee
C38_EntryWithoutAttendee ==
    /\ edits = 1 /\ eventType = INVITE
    /\ ownAttendee = Null
    /\ DefaultSender \in LedgerAddresses \ AttendeeAddresses

\* a guest was added to an own event: the guest and the editor are the
\* attendees and the addresses of the ledger
C38_GuestWithEntry ==
    /\ edits = 1 /\ eventType = OWN
    /\ Len(inviteModel.bcc) = 1
    /\ LedgerAddresses = AttendeeAddresses
    /\ Cardinality(LedgerAddresses) = 2

\* ------------------------------------------------ a further guest, saved again
\* addGuest, called when the first saveAndSend has resolved to true
addGuestAfterSave(mailAddress) ==
    /\ pc[1] = "done" /\ result[1] = "true"
    /\ \A q \in Callers \ {1} : pc[q] = "idle"
    /\ edits < MaxEdits
    /\ Apply(addGuestIn(View, mailAddress))
    /\ unresolved' = IF addGuestIn(View, mailAddress).inv # inviteModel
                     THEN unresolved \cup {mailAddress} ELSE unresolved
    /\ UNCHANGED <<originalEvent, existingEvent, eventType, possibleOrganizers, detailVars, startDate, endDate,
                   startTime, endTime, allDay, isForceUpdates, hasBusinessFeature,
                   accountType, callVars, processing>>
    /\ Edited

\* The drafts of own events of a paying account: guests are added, the draft
\* is saved, a further guest is added and the draft is saved again; each
\* caller calls once.
InviteAgainInit == Init /\ eventType = OWN /\ accountType = "PREMIUM"

InviteAgainNext ==
    \/ \E x \in ForeignAddresses : addGuest(x)
    \/ \E x \in ForeignAddresses : addGuestAfterSave(x)
    \/ \E p \in Callers : saveAndSend(p)
    \/ \E p \in Callers : saveAndSendAgain(p)
    \/ \E p \in Callers : materialize(p)
    \/ \E p \in Callers : askForUpdates(p)
    \/ \E p \in Callers : checkBusinessFeature(p)
    \/ \E p \in Callers : passwordCheck(p)
    \/ \E p \in Callers : sendInvite(p)
    \/ \E p \in Callers : sendCancellation(p)
    \/ \E p \in Callers : saveEvent(p)
    \/ \E p \in Callers : sendUpdate(p)

InviteAgainSpec == InviteAgainInit /\ [][InviteAgainNext]_vars

\* the sendInvite calls of p
Invitations(p) == CallsOf(p, {"sendInvite"})

\* C39 (as stated): across successive successful saveAndSend calls on the
\* same draft, a guest to whom an invitation was dispatched is not among the
\* recipients of a later sendInvite: after a further guest was added, saving
\* again invites only the guests not yet invited.
C39_InvitedOnce ==
    \A p, q \in Callers :
        SavedAfter(p, q) /\ result[p] = "true" =>
            \A j \in Invitations(q) :
                InvitedBy(p) \cap SeqToSet(calls[q][j].to) = {}

\* what holds: in the event of a later sendInvite no guest of an earlier
\* successful invitation has the status ADDED, and the guests with that
\* status are recipients
C39_NewAttendeesNotInvitedBefore ==
    \A p, q \in Callers :
        SavedAfter(p, q) /\ result[p] = "true" =>
            \A j \in Invitations(q) :
                LET event == calls[q][j].event
                    new == {event.attendees[k].address : k \in newAttendeesOf(event)}
                IN /\ InvitedBy(p) \cap new = {}
                   /\ new # {}
                   /\ new \subseteq SeqToSet(calls[q][j].to)

\* a guest was invited by the first save, a further guest was added, and
\* the sendInvite of the second save went to both
C39_Witness ==
    \E p, q \in Callers :
        /\ SavedAfter(p, q) /\ result[p] = "true"
        /\ pc[q] = "done" /\ result[q] = "true"
        /\ \E j \in Invitations(q) :
              /\ calls[q][j].outcome = "ok"
              /\ InvitedBy(p) \cap SeqToSet(calls[q][j].to) # {}
              /\ SeqToSet(calls[q][j].to) \ InvitedBy(p) # {}

====
